---- MODULE Spec2Model ----
(***************************************************************************)
(* A model of the mux request dispatcher: the pooled request context and   *)
(* its locals (context.go, shared.go), the per-request wrapper             *)
(* Router.handler with its panic recovery (routing.go), route              *)
(* registration and dispatch over http.ServeMux (routing.go) and the       *)
(* middleware composition of routers and groups.                           *)
(***************************************************************************)
EXTENDS Naturals, Sequences, FiniteSets, TLC

\* ------------------------------------------------------------------ bounds
NumTasks == 2       \* goroutines serving requests concurrently
MaxReq == 2         \* requests served in one behaviour
MaxOps == 1         \* Set calls one handler makes
MaxRoutes == 2      \* routes registered in one behaviour
MaxPathLen == 2     \* segments of a request path
MaxUse == 3         \* Use calls in one behaviour, router and groups together
MaxWrites == 1      \* responses one invocation of a handler writes
MaxMembers == 2     \* members of the JSON object in a request body

Tasks == 1..NumTasks
Ctxs == 1..NumTasks \* Context objects that can be live at the same time
Keys == {"k1", "k2"}
Nil == 0            \* nil (value, *http.Request, http.ResponseWriter)
NoPanic == "none"   \* recover() returning nil
Errors == {"fail"}          \* errors a handler returns
Payloads == {"boom"}        \* values a handler panics with
NoVal == ""                 \* no error and no panic value
EhPayload == "eh-boom"      \* the value a panicking error handler panics with

VARIABLES
    sp,      \* pool.sp: the Contexts lying in the sync.Pool
    heap,    \* the Context objects: id -> [w, r, locals, len]
    alloc,   \* the ids of the Contexts allocated by new(T) so far
    nreq,    \* requests begun so far (the id of the latest request)
    pc,      \* per task: where its ServeHTTP call stands
    c,       \* per task: the Context its request holds (0 when none)
    req,     \* per task: the id of the request it serves
    nops,    \* per task: Set calls made by the handler of this request
    hout,    \* per task: how handlerFunc(c) ended in this request
    calls,   \* per task: the invocations of r.onErr in this request
    nput,    \* per task: r.ctx.put calls in this request
    exit,    \* per task: how ServeHTTP ended ("normal", "panic") or "none"
    resp     \* per task: the WriteHeader calls on the request's ResponseWriter

lifeVars == <<sp, heap, alloc, nreq, pc, c, req, nops, hout, calls, nput, exit, resp>>

VARIABLES
    mux,     \* Router.mux: the routes registered, [method, pattern, h]
    mws,     \* Router.mws: the router's middleware, in Use order
    on404,   \* Router.on404
    on405,   \* Router.on405
    grp,     \* the Group objects: prefix, mws, and how many mws came from the parent
    seen,    \* per route, the middleware lists its registration call found
    regout,  \* how the call just made ended if it registered a route: "ok" or
             \* "panic"; "none" after any other call
    last     \* the latest ServeHTTP call on the present routes: what it served

routerVars == <<mux, mws, on404, on405, grp, seen, regout, last>>

\* a decodeJSON call: the target, what decoder.Decode returns on the first and
\* on the second call, and what decodeJSON ends with
VARIABLES
    dec

VARIABLES
    rw,      \* a ResponseWriter over a recording writer, and the calls made on it
    cx,      \* a Context in the hands of a handler, and its Set calls
    reg,     \* the registry with the method-agnostic index: mux, bare, allowed
    bnd      \* a Context.Bind call: the Content-Type header, target, body, outcome

vars == <<lifeVars, routerVars, dec, rw, cx, reg, bnd>>

\* ---------------------------------------------------------------- Context
\* type local struct { key string; value any }: the zero value
zeroLocal == [key |-> "", value |-> Nil]

\* new(Context): all fields zero; locals is the backing array, len its length
newContext == [w |-> Nil, r |-> Nil, locals |-> <<>>, len |-> 0]

\* for i := range c.locals { if c.locals[i].key == key ... }: the first index, 0 if none
indexOf(x, key) ==
    LET hits == {i \in 1..x.len : x.locals[i].key = key}
    IN  IF hits = {} THEN 0 ELSE CHOOSE i \in hits : \A j \in hits : i <= j

\* append on a full slice: the capacity Go grows it to
growCap(cap) == IF cap = 0 THEN 1 ELSE 2 * cap

\* Context.Set with the slot of a reused backing array not overwritten
SetKeepsSlot(x, key, value) ==
    LET i == indexOf(x, key)
        n == x.len
    IN  IF i > 0 THEN [x EXCEPT !.locals[i].value = value]
        ELSE IF value = Nil THEN x
        ELSE IF Len(x.locals) > n
             THEN [x EXCEPT !.len = n + 1]
        ELSE [x EXCEPT !.len = n + 1,
                       !.locals = [j \in 1..growCap(n) |->
                                     IF j <= n THEN x.locals[j]
                                     ELSE IF j = n + 1 THEN [key |-> key, value |-> value]
                                     ELSE zeroLocal]]

\* the slice with the entry appended (append, or the free slot of the
\* backing array)
appendLocal(x, key, value) ==
    LET n == x.len
    IN  IF Len(x.locals) > n
        THEN [x EXCEPT !.len = n + 1,
                       !.locals[n + 1] = [key |-> key, value |-> value]]
        ELSE [x EXCEPT !.len = n + 1,
                       !.locals = [j \in 1..growCap(n) |->
                                     IF j <= n THEN x.locals[j]
                                     ELSE IF j = n + 1 THEN [key |-> key, value |-> value]
                                     ELSE zeroLocal]]

\* Context.Set without the search for the key: every value is appended
SetAppends(x, key, value) ==
    IF value = Nil THEN x ELSE appendLocal(x, key, value)

\* Context.Set without the test for nil: a nil value gets an entry too
SetStoresNil(x, key, value) ==
    LET i == indexOf(x, key)
    IN  IF i > 0 THEN [x EXCEPT !.locals[i].value = value]
        ELSE appendLocal(x, key, value)

\* Context.Set
Set(x, key, value) ==
    LET i == indexOf(x, key)
        n == x.len
    IN  IF i > 0 THEN [x EXCEPT !.locals[i].value = value]
        ELSE IF value = Nil THEN x
        ELSE IF Len(x.locals) > n
             THEN [x EXCEPT !.len = n + 1,
                            !.locals[n + 1] = [key |-> key, value |-> value]]
        ELSE [x EXCEPT !.len = n + 1,
                       !.locals = [j \in 1..growCap(n) |->
                                     IF j <= n THEN x.locals[j]
                                     ELSE IF j = n + 1 THEN [key |-> key, value |-> value]
                                     ELSE zeroLocal]]

\* Context.Get
Get(x, key) ==
    LET i == indexOf(x, key)
    IN  IF i > 0 THEN x.locals[i].value ELSE Nil

\* Context.attach(w, req): binds the response sink and the request
attach(x, w, r) == [x EXCEPT !.w = w, !.r = r]

\* Context.detach(): drops the references and cuts locals to length zero,
\* keeping the backing array
detach(x) == [x EXCEPT !.w = Nil, !.r = Nil, !.len = 0]

\* ------------------------------------------------------------------- pool
\* pool.get handing out any Context made so far, in the pool or held
poolGetHeld ==
    {[c |-> x, sp |-> sp \ {x}, heap |-> heap, alloc |-> alloc] : x \in alloc}
    \cup
    {[c |-> x, sp |-> sp, heap |-> [heap EXCEPT ![x] = newContext],
      alloc |-> alloc \cup {x}] :
        x \in {y \in Ctxs \ alloc : \A z \in Ctxs \ alloc : y <= z}}

\* pool.get: any Context of the sync.Pool, or new(T) when Get yields nil
\* (sync.Pool may yield nil at any time); each choice is [c, sp, heap, alloc]
poolGet ==
    {[c |-> x, sp |-> sp \ {x}, heap |-> heap, alloc |-> alloc] : x \in sp}
    \cup
    {[c |-> x, sp |-> sp, heap |-> [heap EXCEPT ![x] = newContext],
      alloc |-> alloc \cup {x}] :
        x \in {y \in Ctxs \ alloc : \A z \in Ctxs \ alloc : y <= z}}

\* pool.put
poolPut(x) == sp \cup {x}

\* ----------------------------------------------------------- Router.handler
\* the panic value passed on without the "panic: " prefix
panicErrorBare(payload) == payload

\* fmt.Errorf("panic: %v", err)
panicError(payload) == "panic: " \o payload

\* safelyHandleError with the deferred recover left out: the panic goes on
safelyHandleErrorNoRecover(out) == IF out = "panic" THEN EhPayload ELSE NoPanic

\* safelyHandleError: what leaves it when r.onErr ended `out`; the deferred
\* recover swallows a panic of r.onErr
safelyHandleError(out) == NoPanic

\* r.onErr(c, err) is entered: the invocation as the error handler sees it
onErrCall(t, err) ==
    [err |-> err, c |-> c[t], r |-> heap[c[t]].r, w |-> heap[c[t]].w, out |-> "running"]

\* ------------------------------------------------------- patterns and paths
RegMethods == {"GET", "POST"}       \* Router.GET, Router.POST (of the five)
ReqMethods == {"GET", "POST", "HEAD", "DELETE"}
Lits == {"a", "b"}                  \* literal segments
Wild == "{id}"                      \* a named capture segment
Multi == "{rest...}"                \* a trailing catch-all segment

\* the patterns routes are registered with: "/a", "/{id}", "/{rest...}",
\* "/a/b", "/a/{id}", "/a/{rest...}", "/{id}/b"
Patterns ==
    { <<"a">>, <<Wild>>, <<Multi>>, <<"a", "b">>, <<"a", Wild>>, <<"a", Multi>>,
      <<Wild, "b">> }
NoPattern == <<>>

\* the request paths, clean (no empty, "." or ".." segment): the segments and
\* whether a slash ends the path; "/" is no segment and a slash
Paths ==
    {[segs |-> s, slash |-> b] :
        s \in UNION {[1..k -> Lits] : k \in 0..MaxPathLen}, b \in BOOLEAN}
    \ {[segs |-> <<>>, slash |-> FALSE]}

\* path + "/"
withSlash(path) == [path EXCEPT !.slash = TRUE]

\* a handler passed to the router: a function literal, named by what it is
\* registered for; mws are the middleware wrapped around it, outermost first
noRoute == [name |-> "none", method |-> "", pattern |-> NoPattern, dup |-> FALSE]
plain(h) == [mws |-> <<>>, h |-> h]
routeHandler(method, pattern, dup) ==
    plain([name |-> "route", method |-> method, pattern |-> pattern, dup |-> dup])
named(name) == plain([noRoute EXCEPT !.name = name])
NoHandler == named("none")

\* ------------------------------------------------ http.ServeMux (net/http)
lastSegment(p) == p[Len(p)]

\* pattern.go compareSegments
compareSegments(s1, s2) ==
    IF s1 = Multi /\ s2 = Multi THEN "equivalent"
    ELSE IF s1 = Multi THEN "moreGeneral"
    ELSE IF s2 = Multi THEN "moreSpecific"
    ELSE IF s1 = Wild /\ s2 = Wild THEN "equivalent"
    ELSE IF s1 = Wild THEN "moreGeneral"
    ELSE IF s2 = Wild THEN "moreSpecific"
    ELSE IF s1 = s2 THEN "equivalent"
    ELSE "disjoint"

\* pattern.go combineRelationships
combineRelationships(r1, r2) ==
    CASE r1 = "equivalent" -> r2
      [] r1 = "disjoint" -> "disjoint"
      [] r1 = "overlaps" -> IF r2 = "disjoint" THEN "disjoint" ELSE "overlaps"
      [] OTHER ->
            IF r2 = "equivalent" THEN r1
            ELSE IF {r1, r2} = {"moreGeneral", "moreSpecific"} THEN "overlaps"
            ELSE r2

\* the loop of comparePaths over corresponding segments, from segment i on
RECURSIVE compareFrom(_, _, _, _)
compareFrom(p1, p2, i, rel) ==
    IF i > Len(p1) \/ i > Len(p2) THEN rel
    ELSE LET r == combineRelationships(rel, compareSegments(p1[i], p2[i]))
         IN  IF r = "disjoint" THEN r ELSE compareFrom(p1, p2, i + 1, r)

\* pattern.go comparePaths
comparePaths(p1, p2) ==
    IF Len(p1) # Len(p2) /\ lastSegment(p1) # Multi /\ lastSegment(p2) # Multi
    THEN "disjoint"
    ELSE LET rel == compareFrom(p1, p2, 1, "equivalent")
         IN  IF rel = "disjoint" \/ Len(p1) = Len(p2) THEN rel
             ELSE IF Len(p1) < Len(p2) /\ lastSegment(p1) = Multi
                  THEN combineRelationships(rel, "moreGeneral")
             ELSE IF Len(p2) < Len(p1) /\ lastSegment(p2) = Multi
                  THEN combineRelationships(rel, "moreSpecific")
             ELSE "disjoint"

\* pattern.go conflictsWith, for patterns with a method and no host: two
\* different methods of RegMethods are disjoint
conflictsWith(m1, p1, m2, p2) ==
    m1 = m2 /\ comparePaths(p1, p2) \in {"equivalent", "overlaps"}

\* the number of segments the tree walk sees: a trailing slash is one more
walkLen(path) == Len(path.segs) + (IF path.slash THEN 1 ELSE 0)

\* routing_tree.go matchPath with the single wildcard tried before the
\* literal child
RECURSIVE matchPathWildFirst(_, _, _)
matchPathWildFirst(pats, i, path) ==
    IF i > walkLen(path)
    THEN LET leaf == {p \in pats : Len(p) = i - 1}
         IN  IF leaf = {} THEN NoPattern ELSE CHOOSE p \in leaf : TRUE
    ELSE LET seg == IF i <= Len(path.segs) THEN path.segs[i] ELSE "/"
             lit == matchPathWildFirst({p \in pats : Len(p) >= i /\ p[i] = seg}, i + 1, path)
             wild == IF seg = "/" THEN NoPattern
                     ELSE matchPathWildFirst({p \in pats : Len(p) >= i /\ p[i] = Wild}, i + 1, path)
             multi == {p \in pats : Len(p) = i /\ p[i] = Multi}
         IN  IF wild # NoPattern THEN wild
             ELSE IF lit # NoPattern THEN lit
             ELSE IF multi # {} THEN CHOOSE p \in multi : TRUE
             ELSE NoPattern

\* routing_tree.go routingNode.matchPath: the walk from segment i of the path
\* through the patterns that agree on the segments before it; the literal
\* child first, then the single wildcard, then the multi wildcard
RECURSIVE matchPath(_, _, _)
matchPath(pats, i, path) ==
    IF i > walkLen(path)
    THEN LET leaf == {p \in pats : Len(p) = i - 1}
         IN  IF leaf = {} THEN NoPattern ELSE CHOOSE p \in leaf : TRUE
    ELSE LET seg == IF i <= Len(path.segs) THEN path.segs[i] ELSE "/"
             lit == matchPath({p \in pats : Len(p) >= i /\ p[i] = seg}, i + 1, path)
             wild == IF seg = "/" THEN NoPattern
                     ELSE matchPath({p \in pats : Len(p) >= i /\ p[i] = Wild}, i + 1, path)
             multi == {p \in pats : Len(p) = i /\ p[i] = Multi}
         IN  IF lit # NoPattern THEN lit
             ELSE IF wild # NoPattern THEN wild
             ELSE IF multi # {} THEN CHOOSE p \in multi : TRUE
             ELSE NoPattern

\* the rest of the path from segment i on, without its initial slash: path[1:]
\* where the walk stands before segment i
RECURSIVE rest(_, _)
rest(path, i) ==
    IF i > Len(path.segs) THEN ""
    ELSE path.segs[i] \o (IF i < Len(path.segs) THEN "/" \o rest(path, i + 1)
                          ELSE IF path.slash THEN "/" ELSE "")

\* matchPath's multi wildcard taking the next segment only
matchesFirstOnly(pat, i, path) ==
    [id |-> IF \E j \in 1..Len(pat) : pat[j] = Wild
            THEN path.segs[CHOOSE j \in 1..Len(pat) : pat[j] = Wild] ELSE "",
     rest |-> IF pat[Len(pat)] = Multi /\ Len(pat) <= Len(path.segs)
              THEN path.segs[Len(pat)] ELSE ""]

\* routing_tree.go matchPath, the matches it collects on the walk along the
\* pattern it ends on: the segment under a single wildcard, the rest of the
\* path under the multi wildcard; by wildcard name, "" for a name not there
\* (Request.PathValue)
RECURSIVE matches(_, _, _)
matches(pat, i, path) ==
    IF i > Len(pat) THEN [id |-> "", rest |-> ""]
    ELSE IF pat[i] = Multi THEN [id |-> "", rest |-> rest(path, i)]
    ELSE IF pat[i] = Wild THEN [matches(pat, i + 1, path) EXCEPT !.id = path.segs[i]]
    ELSE matches(pat, i + 1, path)

\* the patterns registered with a method
patternsOf(method) == {rt.pattern : rt \in {x \in mux : x.method = method}}

\* routing_tree.go matchMethodAndPath: the method's patterns; GET matches HEAD too
matchMethodAndPath(method, path) ==
    LET own == matchPath(patternsOf(method), 1, path)
    IN  IF own # NoPattern THEN [method |-> method, pattern |-> own]
        ELSE IF method = "HEAD" /\ matchPath(patternsOf("GET"), 1, path) # NoPattern
             THEN [method |-> "GET", pattern |-> matchPath(patternsOf("GET"), 1, path)]
        ELSE [method |-> "", pattern |-> NoPattern]

\* server.go exactMatch
exactMatch(n, path) ==
    /\ n.pattern # NoPattern
    /\ \/ lastSegment(n.pattern) # Multi
       \/ path.slash /\ Len(n.pattern) = walkLen(path)

\* server.go matchOrRedirect: the node matched, or the trailing-slash redirect
matchOrRedirect(method, path) ==
    LET n == matchMethodAndPath(method, path)
    IN  IF /\ ~exactMatch(n, path)
           /\ ~path.slash
           /\ exactMatch(matchMethodAndPath(method, withSlash(path)), withSlash(path))
        THEN [redirect |-> TRUE, n |-> [method |-> "", pattern |-> NoPattern]]
        ELSE [redirect |-> FALSE, n |-> n]

\* the order of slices.Sorted on the method names
MethodOrder == <<"DELETE", "GET", "HEAD", "PATCH", "POST", "PUT">>

\* matchingMethods without the path: every method that has a pattern
matchingMethodsAnyPath(path) ==
    {m \in RegMethods : patternsOf(m) # {}}

\* server.go matchingMethods: the methods with a pattern matching the path, or
\* the path with a slash added; HEAD where GET matches
matchingMethods(path) ==
    LET hit(p) == {m \in RegMethods : matchPath(patternsOf(m), 1, p) # NoPattern}
        ms == hit(path) \cup (IF path.slash THEN {} ELSE hit(withSlash(path)))
    IN  ms \cup (IF "GET" \in ms THEN {"HEAD"} ELSE {})

\* a join with a bare comma
RECURSIVE JoinComma(_)
JoinComma(elems) ==
    IF Len(elems) = 0 THEN ""
    ELSE IF Len(elems) = 1 THEN elems[1]
    ELSE elems[1] \o "," \o JoinComma(Tail(elems))

\* strings.Join(elems, ", ")
RECURSIVE Join(_)
Join(elems) ==
    IF Len(elems) = 0 THEN ""
    ELSE IF Len(elems) = 1 THEN elems[1]
    ELSE elems[1] \o ", " \o Join(Tail(elems))

\* slices.Sorted(maps.Keys(ms))
RECURSIVE sortedFrom(_, _)
sortedFrom(ms, i) ==
    IF i > Len(MethodOrder) THEN <<>>
    ELSE (IF MethodOrder[i] \in ms THEN <<MethodOrder[i]>> ELSE <<>>) \o sortedFrom(ms, i + 1)
Sorted(ms) == sortedFrom(ms, 1)

\* findHandler without the 405 branch: no node is "not found"
findHandlerNo405(method, path) ==
    LET m == matchOrRedirect(method, path)
    IN  IF m.redirect
        THEN [kind |-> "redirect", p |-> "redirect", h |-> NoHandler, allowed |-> {}]
        ELSE IF m.n.pattern = NoPattern
        THEN [kind |-> "404", p |-> "", h |-> NoHandler, allowed |-> {}]
        ELSE [kind |-> "route", p |-> "pattern",
              h |-> (CHOOSE rt \in mux : rt.method = m.n.method /\ rt.pattern = m.n.pattern).h,
              allowed |-> {}]

\* server.go findHandler for a clean path: the handler and the pattern
\* (mux.Handler's results); kind tells the mux's own handlers apart
findHandler(method, path) ==
    LET m == matchOrRedirect(method, path)
        allowed == matchingMethods(path)
    IN  IF m.redirect
        THEN [kind |-> "redirect", p |-> "redirect", h |-> NoHandler, allowed |-> {}]
        ELSE IF m.n.pattern = NoPattern
        THEN IF allowed # {}
             THEN [kind |-> "405", p |-> "", h |-> NoHandler, allowed |-> allowed]
             ELSE [kind |-> "404", p |-> "", h |-> NoHandler, allowed |-> {}]
        ELSE [kind |-> "route", p |-> "pattern",
              h |-> (CHOOSE rt \in mux : rt.method = m.n.method /\ rt.pattern = m.n.pattern).h,
              allowed |-> {}]

\* ----------------------------------------------------------------- Router
\* the response headers: absent is ""
noHeader == [Allow |-> "", Location |-> "", ContentType |-> "", XContentTypeOptions |-> ""]

\* Request.PathValue of a request the mux set no path values on
noParams == [id |-> "", rest |-> ""]

\* the keys of the maps M the handlers marshal, in the sorted order in which
\* json.Marshal writes the keys of a map
SortedKeys == <<"custom", "details", "error", "message">>

\* json.Marshal(v) of a map M of strings: an object of the map's keys in
\* sorted order, each with its value
RECURSIVE marshalFrom(_, _, _)
marshalFrom(v, i, sep) ==
    IF i > Len(SortedKeys) THEN ""
    ELSE IF SortedKeys[i] \in DOMAIN v
    THEN sep \o "\"" \o SortedKeys[i] \o "\":\"" \o v[SortedKeys[i]] \o "\""
             \o marshalFrom(v, i + 1, ",")
    ELSE marshalFrom(v, i + 1, sep)
Marshal(v) == "{" \o marshalFrom(v, 1, "") \o "}"

\* c.JSON(status, v): c.Blob(status, MIMEApplicationJSON, json.Marshal(v))
JSON(status, v) == [status |-> status, body |-> Marshal(v)]

\* c.InternalServerError(v)
InternalServerError(v) == JSON(500, v)

\* the error handler New() installs (r.OnErr, lines 46-48)
defaultOnErr(err) ==
    InternalServerError([error |-> "internal server error", message |-> err])

\* the response a handler of the application writes with c.OK
handlerResponse(status) == JSON(status, [message |-> "hello"])

\* c.NotFound(v), c.MethodNotAllowed(v)
NotFound(v) == JSON(404, v)
MethodNotAllowed(v) == JSON(405, v)

\* nothing written by a handler
NoResponse == [status |-> 0, body |-> ""]

\* what the handler h writes when it is invoked: the handlers New() installs
\* (lines 38-44) and the handlers the application passes to On404 and On405,
\* with the handlers TestCustom404 and TestCustom405 pass
answerOf(h) ==
    CASE h.h.name = "default404" -> NotFound([error |-> "not found"])
      [] h.h.name = "default405" -> MethodNotAllowed([error |-> "method not allowed"])
      [] h.h.name = "custom404" -> JSON(404, [custom |-> "not found"])
      [] h.h.name = "custom405" -> JSON(405, [custom |-> "wrong method"])
      [] OTHER -> NoResponse

\* the not-found handler left at the one New() installed
notFoundDefault == named("default404")

\* r.on404 as Router.ServeHTTP reads it
notFound == on404

\* no ServeHTTP call on the present routes yet
NoRequest ==
    [method |-> "", path |-> [segs |-> <<>>, slash |-> FALSE], served |-> "none",
     h |-> NoHandler, status |-> 0, header |-> noHeader, trace |-> <<>>,
     params |-> noParams, resp |-> NoResponse, sent |-> noHeader]

\* the groups: api := r.Group("/a"), v1 := api.Group("/a"), v2 := api.Group("/b")
Groups == {"api", "v1", "v2"}
Middlewares == {"A", "B"}           \* passed to Router.Use
GroupMiddlewares == {"G", "N", "S"} \* passed to Group.Use
\* each group is given a middleware of its own
GroupMiddleware == [api |-> "G", v1 |-> "N", v2 |-> "S"]
\* at: the number of middleware the router had when Router.Group made the
\* group, or the group it is nested in
noGroup == [made |-> FALSE, prefix |-> <<>>, mws |-> <<>>, inh |-> 0, at |-> 0]

\* the wrapping loop run upwards: the first middleware ends up innermost
RECURSIVE wrapAllUp(_, _, _)
wrapAllUp(ms, i, h) ==
    IF i < 1 THEN h
    ELSE wrapAllUp(ms, i - 1, [h EXCEPT !.mws = <<ms[Len(ms) + 1 - i]>> \o h.mws])

\* h = r.mws[i](h) for i = len(r.mws)-1 down to 0 (Router.handle, lines 100-102)
RECURSIVE wrapAll(_, _, _)
wrapAll(ms, i, h) ==
    IF i < 1 THEN h ELSE wrapAll(ms, i - 1, [h EXCEPT !.mws = <<ms[i]>> \o h.mws])

\* Router.handle on a mux that takes a pattern registered already and binds
\* it to the new handler
handleReplaces(method, pattern, h) ==
    LET same == {rt \in mux : rt.method = method /\ rt.pattern = pattern}
    IN  IF \E rt \in mux \ same : conflictsWith(method, pattern, rt.method, rt.pattern)
        THEN [mux |-> mux, out |-> "panic"]
        ELSE [mux |-> (mux \ same) \cup {[method |-> method, pattern |-> pattern,
                                           h |-> wrapAll(mws, Len(mws), h)]},
              out |-> "ok"]

\* Router.handle: wraps h in the router's middleware and registers it;
\* mux.Handle panics on a pattern in conflict with a registered one
handle(method, pattern, h) ==
    IF \E rt \in mux : conflictsWith(method, pattern, rt.method, rt.pattern)
    THEN [mux |-> mux, out |-> "panic"]
    ELSE [mux |-> mux \cup {[method |-> method, pattern |-> pattern,
                              h |-> wrapAll(mws, Len(mws), h)]},
          out |-> "ok"]

\* Group.handle without its loop: the handler goes to the router as it is
groupHandleUnwrapped(g, method, pattern, h) ==
    handle(method, g.prefix \o pattern, h)

\* Group.handle with the router's middleware taken as it was when the group
\* was made
groupHandleAtCreation(g, method, pattern, h) ==
    LET ms == SubSeq(mws, 1, g.at)
        full == g.prefix \o pattern
        gh == wrapAll(g.mws, Len(g.mws), h)
    IN  IF \E rt \in mux : conflictsWith(method, full, rt.method, rt.pattern)
        THEN [mux |-> mux, out |-> "panic"]
        ELSE [mux |-> mux \cup {[method |-> method, pattern |-> full,
                                  h |-> wrapAll(ms, Len(ms), gh)]},
              out |-> "ok"]

\* Group.handle: wraps h in the group's middleware, then Router.handle with
\* the prefixed pattern
groupHandle(g, method, pattern, h) ==
    handle(method, g.prefix \o pattern, wrapAll(g.mws, Len(g.mws), h))

\* a call of a composed handler: each middleware's part before next, then
\* next, then its part after; the innermost is the route's handler
\* the middleware that return without calling next (authMw of
\* TestGroupMiddlewareShortCircuit); every other middleware calls next
ShortCircuits == {"X"}

\* c.Unauthorized(v)
Unauthorized(v) == JSON(401, v)

\* a call of a composed handler with every middleware calling next
RECURSIVE runThrough(_, _)
runThrough(h, i) ==
    IF i > Len(h.mws) THEN <<"H">>
    ELSE <<h.mws[i] \o "-before">> \o runThrough(h, i + 1) \o <<h.mws[i] \o "-after">>

RECURSIVE run(_, _)
run(h, i) ==
    IF i > Len(h.mws) THEN <<"H">>
    ELSE IF h.mws[i] \in ShortCircuits THEN <<h.mws[i] \o "-return">>
    ELSE <<h.mws[i] \o "-before">> \o run(h, i + 1) \o <<h.mws[i] \o "-after">>

\* what a call of a composed handler writes: the route's handler answers
\* with c.OK, a middleware that does not call next with c.Unauthorized, and
\* a middleware that calls next writes nothing itself
RECURSIVE chainAnswer(_, _)
chainAnswer(h, i) ==
    IF i > Len(h.mws) THEN handlerResponse(200)
    ELSE IF h.mws[i] \in ShortCircuits THEN Unauthorized([error |-> "unauthorized"])
    ELSE chainAnswer(h, i + 1)

\* http.Error on a fake writer with a header map of its own
httpErrorDiscarded(header) == header

\* http.Error(w, text, code) on the fake writer: the headers go to the real
\* response's header map (responder embeds the ResponseWriter), the status is
\* captured, the body discarded
httpError(header) ==
    [header EXCEPT !.ContentType = "text/plain; charset=utf-8",
                   !.XContentTypeOptions = "nosniff"]

MIMEApplicationJSON == "application/json"

\* Context.Blob on the header map: Content-Type is set to the content type
\* passed, the other headers stay
blobHeader(header, contentType) ==
    IF contentType = "" THEN header ELSE [header EXCEPT !.ContentType = contentType]

\* Router.ServeHTTP: what it serves for a request on the present routes;
\* status is what the mux itself sends (the redirect), 0 where the handler
\* invoked writes the response; header is the response's header map when the
\* handler is invoked, resp what the handler writes and sent the headers
\* that leave with it
serve(method, path) ==
    LET f == findHandler(method, path)
    IN  IF f.p # ""
        THEN \* r.mux.ServeHTTP(w, req): the route's handler, or the redirect
             IF f.kind = "redirect"
             THEN [method |-> method, path |-> path, served |-> "redirect",
                   h |-> NoHandler, status |-> 301,
                   header |-> [noHeader EXCEPT !.Location = "path/"], trace |-> <<>>,
                   params |-> noParams, resp |-> NoResponse,
                   sent |-> [noHeader EXCEPT !.Location = "path/"]]
             ELSE [method |-> method, path |-> path, served |-> "route",
                   h |-> f.h, status |-> 0, header |-> noHeader, trace |-> run(f.h, 1),
                   params |-> matches(f.h.h.pattern, 1, path),
                   resp |-> chainAnswer(f.h, 1),
                   sent |-> blobHeader(noHeader, MIMEApplicationJSON)]
        ELSE \* the mux's own handler run on the responder, then on405 or on404
             IF f.kind = "405"
             THEN [method |-> method, path |-> path, served |-> "on405",
                   h |-> on405, status |-> 0,
                   header |-> httpError([noHeader EXCEPT !.Allow = Join(Sorted(f.allowed))]),
                   trace |-> <<"on405">>, params |-> noParams, resp |-> answerOf(on405),
                   sent |-> blobHeader(httpError([noHeader EXCEPT
                                                     !.Allow = Join(Sorted(f.allowed))]),
                                       MIMEApplicationJSON)]
             ELSE [method |-> method, path |-> path, served |-> "on404",
                   h |-> notFound, status |-> 0, header |-> httpError(noHeader),
                   trace |-> <<"on404">>, params |-> noParams, resp |-> answerOf(notFound),
                   sent |-> blobHeader(httpError(noHeader), MIMEApplicationJSON)]

\* --------------------------------------------------------------- decodeJSON
\* maxBytes := 1_048_576
maxBytes == 1048576

\* an error value: the kinds errors.Is and errors.As find in its chain, its
\* Error() text as a prefix and the rest, and the Field and Offset of an
\* UnmarshalTypeError in it
ErrKinds ==
    {"InvalidUnmarshalError", "EOF", "ErrUnexpectedEOF", "MaxBytesError",
     "SyntaxError", "UnmarshalTypeError"}
errorOf(is, prefix, tail, field, offset) ==
    [nil |-> FALSE, is |-> is, text |-> [prefix |-> prefix, tail |-> tail],
     field |-> field, offset |-> offset]
NilError ==
    [nil |-> TRUE, is |-> {}, text |-> [prefix |-> "", tail |-> ""],
     field |-> "", offset |-> 0]

\* the errors of io, net/http and encoding/json
EOF == errorOf({"EOF"}, "", "EOF", "", 0)
ErrUnexpectedEOF == errorOf({"ErrUnexpectedEOF"}, "", "unexpected EOF", "", 0)
MaxBytesError == errorOf({"MaxBytesError"}, "", "http: request body too large", "", 0)
SyntaxError == errorOf({"SyntaxError"}, "", "invalid character", "", 0)
InvalidUnmarshalError == errorOf({"InvalidUnmarshalError"}, "", "json: Unmarshal(non-pointer)", "", 0)
ReadError == errorOf({}, "", "read: connection reset by peer", "", 0)
UnknownFieldPrefix == "json: unknown field "
unknownFieldError(name) == errorOf({}, UnknownFieldPrefix, "\"" \o name \o "\"", "", 0)
unmarshalTypeError(field, offset) ==
    errorOf({"UnmarshalTypeError"}, "", "json: cannot unmarshal", field, offset)

\* err.Error()
Error(err) == err.text.prefix \o err.text.tail

\* the errors the UnmarshalJSON method of a target may return: any chain, any text
CustomErrors ==
    {errorOf(is, prefix, "custom", "", 0) :
        is \in SUBSET ErrKinds, prefix \in {"", UnknownFieldPrefix}}

\* the request body as the decoder meets it: how reading the first value
\* ends, the members of the object read (an object for the target struct),
\* and what follows the first value
FirstKinds ==
    {"empty", "truncated", "oversize", "syntax", "readError", "scalar", "object", "custom"}
Members == {"ok", "unknown", "mistyped"}
RestKinds == {"end", "value", "garbage", "truncated", "oversize", "readError"}
Targets == {"pointer", "nonPointer"}
NoBody ==
    [first |-> "empty", members |-> <<>>, custom |-> NilError, rest |-> "end",
     need |-> 0, size |-> 0]

\* the lengths of bodies, around the limit: size is the length of the body,
\* need the bytes a decoder reads until the first value ends or fails
Lengths == {0, maxBytes - 1, maxBytes, maxBytes + 1}

\* the request bodies as sent, before the limit: what a decoder would meet in
\* them without it; a body that is empty or cut off is read to its end, and
\* only an empty body has no bytes or only white space
Shapes ==
    {[NoBody EXCEPT !.first = f] : f \in {"empty", "truncated", "syntax", "readError", "scalar"}}
    \cup
    {[NoBody EXCEPT !.first = "object", !.members = ms] :
        ms \in UNION {[1..k -> Members] : k \in 0..MaxMembers}}
    \cup
    {[NoBody EXCEPT !.first = "custom", !.custom = e] : e \in CustomErrors \cup {NilError}}
Extents ==
    {x \in [need : Lengths, size : Lengths, rest : RestKinds \ {"oversize"}] :
        x.need <= x.size}
extentsOf(b) ==
    {y \in Extents :
        /\ b.first \in {"empty", "truncated"} => y.need = y.size
        /\ b.first # "empty" => y.need > 0}
Bodies ==
    UNION {{[b EXCEPT !.need = x.need, !.size = x.size, !.rest = x.rest] :
               x \in extentsOf(b)} : b \in Shapes}

\* http.MaxBytesReader(c.w, c.r.Body, maxBytes) with the limit one byte short
MaxBytesReaderShort(body) ==
    IF body.need >= maxBytes
    THEN [body EXCEPT !.first = "oversize", !.members = <<>>, !.custom = NilError]
    ELSE IF body.size >= maxBytes /\ body.rest = "end"
    THEN [body EXCEPT !.rest = "oversize"]
    ELSE body

\* http.MaxBytesReader(c.w, c.r.Body, maxBytes): the body as the decoder
\* meets it; a read past maxBytes bytes fails, so the first value is
\* "oversize" if reading it needs more, and the end of a longer body is
\* "oversize" in place of the end of the stream
MaxBytesReader(body) ==
    IF body.need > maxBytes
    THEN [body EXCEPT !.first = "oversize", !.members = <<>>, !.custom = NilError]
    ELSE IF body.size > maxBytes /\ body.rest = "end"
    THEN [body EXCEPT !.rest = "oversize"]
    ELSE body

\* decodeState.object: the error saved for the members, the first one kept
\* (saveError); an unknown field is "extra", a value of the wrong type is in
\* the field "age"
RECURSIVE savedError(_, _)
savedError(members, i) ==
    IF i > Len(members) THEN NilError
    ELSE IF members[i] = "unknown" THEN unknownFieldError("extra")
    ELSE IF members[i] = "mistyped" THEN unmarshalTypeError("age", i)
    ELSE savedError(members, i + 1)

\* encoding/json Decoder.Decode(v) with DisallowUnknownFields: readValue
\* reads the whole value (its errors are returned as they are), then
\* unmarshal checks the target and decodes into it
Decode(target, body) ==
    CASE body.first = "empty" -> EOF
      [] body.first = "truncated" -> ErrUnexpectedEOF
      [] body.first = "oversize" -> MaxBytesError
      [] body.first = "syntax" -> SyntaxError
      [] body.first = "readError" -> ReadError
      [] OTHER ->
           IF target = "nonPointer" THEN InvalidUnmarshalError
           ELSE IF body.first = "scalar" THEN unmarshalTypeError("", 1)
           ELSE IF body.first = "custom" THEN body.custom
           ELSE savedError(body.members, 1)

\* decoder.Decode(&struct{}{}) on what follows the first value
DecodeRest(body) ==
    CASE body.rest = "end" -> EOF
      [] body.rest = "value" -> NilError
      [] body.rest = "garbage" -> SyntaxError
      [] body.rest = "truncated" -> ErrUnexpectedEOF
      [] body.rest = "oversize" -> MaxBytesError
      [] OTHER -> ReadError

\* what decodeJSON ends with: nil, an error with its message, or a panic
NoResult == [kind |-> "none", msg |-> ""]
returnNil == [kind |-> "nil", msg |-> ""]
returnError(msg) == [kind |-> "error", msg |-> msg]
panicWith(err) == [kind |-> "panic", msg |-> Error(err)]

\* decodeJSON, lines 34-79, with the syntax error tested before the unknown field
classifySyntaxFirst(err) ==
    IF "InvalidUnmarshalError" \in err.is THEN panicWith(err)
    ELSE IF "EOF" \in err.is THEN returnError("body must be valid JSON")
    ELSE IF "ErrUnexpectedEOF" \in err.is THEN returnError("body contains badly-formed JSON")
    ELSE IF "MaxBytesError" \in err.is
    THEN returnError("body must not exceed " \o ToString(maxBytes) \o " bytes")
    ELSE IF "SyntaxError" \in err.is THEN returnError("body contains badly-formed JSON")
    ELSE IF err.text.prefix = UnknownFieldPrefix
    THEN returnError("body contains unknown field " \o err.text.tail)
    ELSE IF "UnmarshalTypeError" \in err.is
    THEN IF err.field # ""
         THEN returnError("body contains incorrect type for field \"" \o err.field \o "\"")
         ELSE returnError("body contains incorrect type at position " \o ToString(err.offset))
    ELSE returnError(Error(err))

\* decodeJSON, lines 34-79, without the panic of lines 40-42
classifyNoPanic(err) ==
    IF "EOF" \in err.is THEN returnError("body must be valid JSON")
    ELSE IF "ErrUnexpectedEOF" \in err.is THEN returnError("body contains badly-formed JSON")
    ELSE IF "MaxBytesError" \in err.is
    THEN returnError("body must not exceed " \o ToString(maxBytes) \o " bytes")
    ELSE IF err.text.prefix = UnknownFieldPrefix
    THEN returnError("body contains unknown field " \o err.text.tail)
    ELSE IF "SyntaxError" \in err.is THEN returnError("body contains badly-formed JSON")
    ELSE IF "UnmarshalTypeError" \in err.is
    THEN IF err.field # ""
         THEN returnError("body contains incorrect type for field \"" \o err.field \o "\"")
         ELSE returnError("body contains incorrect type at position " \o ToString(err.offset))
    ELSE returnError(Error(err))

\* decodeJSON, lines 34-79, without the test for a syntax error
classifyNoSyntax(err) ==
    IF "InvalidUnmarshalError" \in err.is THEN panicWith(err)
    ELSE IF "EOF" \in err.is THEN returnError("body must be valid JSON")
    ELSE IF "ErrUnexpectedEOF" \in err.is THEN returnError("body contains badly-formed JSON")
    ELSE IF "MaxBytesError" \in err.is
    THEN returnError("body must not exceed " \o ToString(maxBytes) \o " bytes")
    ELSE IF err.text.prefix = UnknownFieldPrefix
    THEN returnError("body contains unknown field " \o err.text.tail)
    ELSE IF "UnmarshalTypeError" \in err.is
    THEN IF err.field # ""
         THEN returnError("body contains incorrect type for field \"" \o err.field \o "\"")
         ELSE returnError("body contains incorrect type at position " \o ToString(err.offset))
    ELSE returnError(Error(err))

\* decodeJSON, lines 34-79: the error of the first Decode classified
classify(err) ==
    IF "InvalidUnmarshalError" \in err.is THEN panicWith(err)
    ELSE IF "EOF" \in err.is THEN returnError("body must be valid JSON")
    ELSE IF "ErrUnexpectedEOF" \in err.is THEN returnError("body contains badly-formed JSON")
    ELSE IF "MaxBytesError" \in err.is
    THEN returnError("body must not exceed " \o ToString(maxBytes) \o " bytes")
    ELSE IF err.text.prefix = UnknownFieldPrefix
    THEN returnError("body contains unknown field " \o err.text.tail)
    ELSE IF "SyntaxError" \in err.is THEN returnError("body contains badly-formed JSON")
    ELSE IF "UnmarshalTypeError" \in err.is
    THEN IF err.field # ""
         THEN returnError("body contains incorrect type for field \"" \o err.field \o "\"")
         ELSE returnError("body contains incorrect type at position " \o ToString(err.offset))
    ELSE returnError(Error(err))

\* decodeJSON without the second Decode
decodeJSONFirstOnly(target, sent) ==
    LET body == MaxBytesReader(sent)
        err == Decode(target, body)
    IN  IF err = NilError THEN returnNil ELSE classify(err)

\* decodeJSON(c, v)
decodeJSON(target, sent) ==
    LET body == MaxBytesReader(sent)
        err == Decode(target, body)
    IN  IF err = NilError
        THEN IF DecodeRest(body) # EOF
             THEN returnError("body must only contain a single JSON value")
             ELSE returnNil
        ELSE classify(err)

\* no decodeJSON call
NoCall ==
    [target |-> "pointer", sent |-> NoBody, body |-> NoBody, err |-> NilError,
     out |-> NoResult, called |-> FALSE]

\* the decodeJSON calls: every target with every body sent
Calls == {[NoCall EXCEPT !.target = t, !.sent = b, !.called = TRUE] : t \in Targets, b \in Bodies}

\* ------------------------------------------------------------ Context.Bind
MIMETextXML == "text/xml"
MIMEApplicationXML == "application/xml"
MIMEApplicationForm == "application/x-www-form-urlencoded"
MIMEMultipartForm == "multipart/form-data"

\* the media types a request names in Content-Type as written, "" where the
\* header is absent, and what may follow the media type in the header: no
\* parameter, a parameter, one without a value, one given twice
WrittenTypes ==
    {"", "application/json", "Application/JSON", "text/plain", "text/xml", "Text/XML",
     "application/xml", "APPLICATION/XML", "application/x-www-form-urlencoded",
     "multipart/form-data", "Multipart/Form-Data", "application/xmlx"}
ParamKinds == {"none", "charset=utf-8", "charset", "a=1; a=2"}
Headers == [type : WrittenTypes, params : ParamKinds]

\* strings.ToLower on the media types written
ToLower(str) ==
    CASE str = "Application/JSON" -> "application/json"
      [] str = "Text/XML" -> "text/xml"
      [] str = "APPLICATION/XML" -> "application/xml"
      [] str = "Multipart/Form-Data" -> "multipart/form-data"
      [] OTHER -> str

\* mime.ParseMediaType(v), the media type returned: the text before the first
\* ";" in lower case; "" with an error for a header without a media type and
\* for a parameter given twice; a parameter that does not parse leaves the
\* media type returned (with ErrInvalidMediaParameter)
ParseMediaType(h) ==
    IF h.type = "" THEN ""
    ELSE IF h.params = "a=1; a=2" THEN ""
    ELSE ToLower(h.type)

\* Context.ContentType: ct, _, _ := mime.ParseMediaType(c.r.Header.Get("Content-Type"))
ContentType(h) == ParseMediaType(h)

\* what a Bind call did: out what it ended with, read whether c.r.Body was
\* wrapped and read, given whether v was handed to a decoder
bound(out, read, given) == [out |-> out, read |-> read, given |-> given]

\* Context.Bind with every body handed to decodeJSON
BindAlwaysJSON(h, target, sent) == bound(decodeJSON(target, sent), TRUE, TRUE)

\* Context.Bind(v): the switch on c.ContentType()
Bind(h, target, sent) ==
    CASE ContentType(h) \in {MIMEApplicationXML, MIMETextXML} -> bound(returnNil, FALSE, FALSE)
      [] ContentType(h) \in {MIMEApplicationForm, MIMEMultipartForm} -> bound(returnNil, FALSE, FALSE)
      [] OTHER -> bound(decodeJSON(target, sent), TRUE, TRUE)

\* no Bind call
NoBind ==
    [header |-> [type |-> "", params |-> "none"], target |-> "pointer", sent |-> NoBody,
     res |-> bound(NoResult, FALSE, FALSE), called |-> FALSE]

\* the bodies of the Bind calls: nothing, JSON of each kind with nothing after
\* it, and what is no JSON
BindBodies == {b \in Bodies : b.size = b.need /\ b.size < maxBytes /\ b.rest = "end"}

InitBind == bnd = NoBind

\* ---------------------------------------------------------- ResponseWriter
MaxCalls == 3       \* calls made on one ResponseWriter
MaxData == 2        \* bytes passed to one Write
Statuses == {200, 201, 404}
\* the byte slices passed to Write
Data == {<<>>, <<"h">>} \cup {d \in [1..MaxData -> {"h", "i"}] : d[1] = "h"}

\* what the underlying writer may return from Write(b): all of b written,
\* with or without an error, or a short count with an error (io.Writer)
Returns(b) ==
    {[n |-> Len(b), err |-> e] : e \in {"nil", "closed"}}
    \cup {[n |-> n, err |-> "closed"] : n \in 0..(Len(b) - 1)}

\* &ResponseWriter{ResponseWriter: rec}
newResponseWriter == [status |-> 0, size |-> 0]

\* ResponseWriter.Status, ResponseWriter.Size
Status(r) == r.status
Size(r) == r.size

\* WriteHeader keeping the status of the first call
WriteHeaderFirst(r, status) ==
    [r |-> IF r.status = 0 THEN [r EXCEPT !.status = status] ELSE r,
     under |-> [op |-> "WriteHeader", status |-> status]]

\* ResponseWriter.WriteHeader(status): the field, then the call of the
\* underlying writer
WriteHeader(r, status) ==
    [r |-> [r EXCEPT !.status = status],
     under |-> [op |-> "WriteHeader", status |-> status]]

\* Write counting the bytes it was given
WriteCountsGiven(r, b, u) ==
    [r |-> [r EXCEPT !.size = r.size + Len(b)],
     under |-> [op |-> "Write", b |-> b, n |-> u.n, err |-> u.err],
     ret |-> u]

\* ResponseWriter.Write(b): u is what the underlying writer returns for b
Write(r, b, u) ==
    [r |-> [r EXCEPT !.size = r.size + u.n],
     under |-> [op |-> "Write", b |-> b, n |-> u.n, err |-> u.err],
     ret |-> u]

\* no Write call made yet
NoReturn == [n |-> 0, err |-> "none"]

\* a ResponseWriter just made: under is what the underlying writer was
\* called with, call the latest call made and ret what the latest Write returned
InitWriter ==
    rw = [r |-> newResponseWriter, under |-> <<>>, call |-> <<>>, ret |-> NoReturn]

\* ------------------------------------------ the registry with an index
\* New() of the Router that keeps a bare mux and the allowed map: both muxes
\* and the map empty; bare counts the Handle calls the bare mux accepted for
\* a pattern, allowed[p] = <<>> is the nil entry, out the outcome of the
\* latest registration
NewIndexed ==
    [mux |-> {}, bare |-> [p \in Patterns |-> 0], allowed |-> [p \in Patterns |-> <<>>],
     out |-> "none"]

\* the patterns the bare mux holds
barePatterns(g) == {p \in Patterns : g.bare[p] > 0}

\* Router.handle(method, path, h), pattern being r.prefix + path:
\* r.mux.Handle(method+" "+pattern, h), which panics on a conflict; then
\* r.bare.Handle(pattern, ...) if r.allowed[pattern] == nil, which panics on a
\* conflict among the bare patterns; then the append to r.allowed[pattern]
handleIndexed(g, method, pattern) ==
    IF \E b \in g.mux : conflictsWith(method, pattern, b.method, b.pattern)
    THEN [g EXCEPT !.out = "panic"]
    ELSE LET g1 == [g EXCEPT !.mux = @ \cup {[method |-> method, pattern |-> pattern]}]
         IN  IF g.allowed[pattern] # <<>>
             THEN [g1 EXCEPT !.allowed[pattern] = Append(@, method), !.out = "ok"]
             ELSE IF \E q \in barePatterns(g) : conflictsWith("", pattern, "", q)
                  THEN [g1 EXCEPT !.out = "panic"]
                  ELSE [g1 EXCEPT !.bare[pattern] = @ + 1,
                                  !.allowed[pattern] = <<method>>, !.out = "ok"]

InitIndexed == reg = NewIndexed

\* the state after New(): no context, no request, no route
InitRouter ==
    /\ sp = {}
    /\ heap = [x \in Ctxs |-> newContext]
    /\ alloc = {}
    /\ nreq = 0
    /\ pc = [t \in Tasks |-> "idle"]
    /\ c = [t \in Tasks |-> 0]
    /\ req = [t \in Tasks |-> 0]
    /\ nops = [t \in Tasks |-> 0]
    /\ hout = [t \in Tasks |-> [out |-> "none", val |-> NoVal]]
    /\ calls = [t \in Tasks |-> <<>>]
    /\ nput = [t \in Tasks |-> 0]
    /\ exit = [t \in Tasks |-> "none"]
    /\ resp = [t \in Tasks |-> <<>>]
    /\ mux = {}
    /\ mws = <<>>
    /\ on404 = named("default404")
    /\ on405 = named("default405")
    /\ grp = [g \in Groups |-> noGroup]
    /\ seen = {}
    /\ regout = "none"
    /\ last = NoRequest

\* a Context as new(Context) makes it, attached to the first request, no Set
\* call made on it
InitContext == cx = [x |-> attach(newContext, 1, 1), sets |-> <<>>]

Init == InitRouter /\ dec = NoCall /\ InitWriter /\ InitContext /\ InitIndexed /\ InitBind

\* Router.handler, lines 119-121: c := r.ctx.get(); c.attach(w, req).
\* The goroutines are interchangeable: of those that have served nothing yet
\* the lowest begins.
Acquire(t) ==
    /\ pc[t] \in {"idle", "done"}
    /\ pc[t] = "idle" => \A u \in Tasks : u < t => pc[u] # "idle"
    /\ nreq < MaxReq
    /\ \E g \in poolGet :
        /\ sp' = g.sp
        /\ alloc' = g.alloc
        /\ heap' = [g.heap EXCEPT ![g.c] = attach(g.heap[g.c], nreq + 1, nreq + 1)]
        /\ c' = [c EXCEPT ![t] = g.c]
    /\ nreq' = nreq + 1
    /\ req' = [req EXCEPT ![t] = nreq + 1]
    /\ pc' = [pc EXCEPT ![t] = "handler"]
    /\ nops' = [nops EXCEPT ![t] = 0]
    /\ hout' = [hout EXCEPT ![t] = [out |-> "none", val |-> NoVal]]
    /\ calls' = [calls EXCEPT ![t] = <<>>]
    /\ nput' = [nput EXCEPT ![t] = 0]
    /\ exit' = [exit EXCEPT ![t] = "none"]
    /\ resp' = [resp EXCEPT ![t] = <<>>]
    /\ UNCHANGED <<routerVars, dec, rw, cx, reg, bnd>>

\* the handler chain calls c.Set(key, value)
HandlerSet(t, key, value) ==
    /\ pc[t] = "handler"
    /\ nops[t] < MaxOps
    /\ heap' = [heap EXCEPT ![c[t]] = Set(heap[c[t]], key, value)]
    /\ nops' = [nops EXCEPT ![t] = nops[t] + 1]
    /\ UNCHANGED <<sp, alloc, nreq, pc, c, req, hout, calls, nput, exit, resp, routerVars, dec, rw, cx, reg, bnd>>

\* the deferred function of Router.handler finds recover() = payload
\* (lines 124-126): r.safelyHandleError(c, fmt.Errorf("panic: %v", err));
\* cs are the error handler's invocations so far
recovered(t, cs, payload) ==
    /\ pc' = [pc EXCEPT ![t] = "recovered"]
    /\ calls' = [calls EXCEPT ![t] = Append(cs, onErrCall(t, panicError(payload)))]

\* handlerFunc(c) ends, a returned error taken for a panic value
HandlerReturnErrAsPanic(t, out, val) ==
    /\ pc[t] = "handler"
    /\ hout' = [hout EXCEPT ![t] = [out |-> out, val |-> val]]
    /\ nops' = [nops EXCEPT ![t] = 0]
    /\ \/ /\ out = "nil"
          /\ val = NoVal
          /\ pc' = [pc EXCEPT ![t] = "release"]
          /\ UNCHANGED calls
       \/ /\ out \in {"err", "panic"}
          /\ val \in Errors \cup Payloads
          /\ recovered(t, calls[t], val)
    /\ UNCHANGED <<sp, heap, alloc, nreq, c, req, nput, exit, resp, routerVars, dec, rw, cx, reg, bnd>>

\* handlerFunc(c) ends, the context released before the error handler runs
HandlerReturnReleasesFirst(t, out, val) ==
    /\ pc[t] = "handler"
    /\ hout' = [hout EXCEPT ![t] = [out |-> out, val |-> val]]
    /\ nops' = [nops EXCEPT ![t] = 0]
    /\ \/ /\ out = "nil"
          /\ val = NoVal
          /\ pc' = [pc EXCEPT ![t] = "release"]
          /\ UNCHANGED <<calls, heap, sp>>
       \/ /\ out = "err"
          /\ val \in Errors
          /\ pc' = [pc EXCEPT ![t] = "onErr"]
          /\ calls' = [calls EXCEPT ![t] = Append(calls[t], onErrCall(t, val))]
          /\ heap' = [heap EXCEPT ![c[t]] = detach(heap[c[t]])]
          /\ sp' = poolPut(c[t])
       \/ /\ out = "panic"
          /\ val \in Payloads
          /\ recovered(t, calls[t], val)
          /\ heap' = [heap EXCEPT ![c[t]] = detach(heap[c[t]])]
          /\ sp' = poolPut(c[t])
    /\ UNCHANGED <<alloc, nreq, c, req, nput, exit, resp, routerVars, dec, rw, cx, reg, bnd>>

\* handlerFunc(c) ends (line 134): it returns nil, returns an error, or panics
HandlerReturn(t, out, val) ==
    /\ pc[t] = "handler"
    /\ hout' = [hout EXCEPT ![t] = [out |-> out, val |-> val]]
    /\ nops' = [nops EXCEPT ![t] = 0]
    /\ \/ /\ out = "nil"
          /\ val = NoVal
          /\ pc' = [pc EXCEPT ![t] = "release"]
          /\ UNCHANGED calls
       \/ /\ out = "err"
          /\ val \in Errors
          /\ pc' = [pc EXCEPT ![t] = "onErr"]
          /\ calls' = [calls EXCEPT ![t] = Append(calls[t], onErrCall(t, val))]
       \/ /\ out = "panic"
          /\ val \in Payloads
          /\ recovered(t, calls[t], val)
    /\ UNCHANGED <<sp, heap, alloc, nreq, c, req, nput, exit, resp, routerVars, dec, rw, cx, reg, bnd>>

\* r.onErr(c, err) ends inside safelyHandleError (line 113): it returns or
\* it panics; pc "onErr" is the call of line 135, "recovered" that of line 125
ErrHandlerReturn(t, out) ==
    /\ pc[t] \in {"onErr", "recovered"}
    /\ LET p == safelyHandleError(out)
           cs == [calls[t] EXCEPT ![Len(calls[t])].out = out]
       IN  IF p = NoPanic
           THEN /\ pc' = [pc EXCEPT ![t] = "release"]
                /\ calls' = [calls EXCEPT ![t] = cs]
                /\ UNCHANGED exit
           ELSE IF pc[t] = "onErr"
           THEN \* a panic leaving line 135 reaches the deferred recover
                /\ recovered(t, cs, p)
                /\ UNCHANGED exit
           ELSE \* a panic leaving line 125 leaves the deferred function
                /\ pc' = [pc EXCEPT ![t] = "done"]
                /\ calls' = [calls EXCEPT ![t] = cs]
                /\ exit' = [exit EXCEPT ![t] = "panic"]
    /\ UNCHANGED <<sp, heap, alloc, nreq, c, req, nops, hout, nput, resp, routerVars, dec, rw, cx, reg, bnd>>

\* the writes of the invocation n of this request: 0 is the handler chain, k
\* the k-th call of r.onErr
writesOf(t, n) == {i \in 1..Len(resp[t]) : resp[t][i].by = n}

\* c.w.WriteHeader(status) in Context.Blob (line 276), called by the handler
\* chain through c.JSON, c.OK, c.String, ...
HandlerWrite(t, status) ==
    /\ pc[t] = "handler"
    /\ Cardinality(writesOf(t, 0)) < MaxWrites
    /\ LET out == handlerResponse(status)
       IN  resp' = [resp EXCEPT ![t] =
                       Append(@, [by |-> 0, status |-> out.status, body |-> out.body])]
    /\ UNCHANGED <<sp, heap, alloc, nreq, pc, c, req, nops, hout, calls, nput, exit, routerVars, dec, rw, cx, reg, bnd>>

\* c.w.WriteHeader(500) in Context.Blob, called by the error handler (the
\* default one through c.InternalServerError, line 47)
ErrHandlerWrite(t) ==
    /\ pc[t] \in {"onErr", "recovered"}
    /\ Cardinality(writesOf(t, Len(calls[t]))) < MaxWrites
    /\ LET out == defaultOnErr(calls[t][Len(calls[t])].err)
       IN  resp' = [resp EXCEPT ![t] =
                       Append(@, [by |-> Len(calls[t]), status |-> out.status, body |-> out.body])]
    /\ UNCHANGED <<sp, heap, alloc, nreq, pc, c, req, nops, hout, calls, nput, exit, routerVars, dec, rw, cx, reg, bnd>>

\* Router.handler returning with the release left out
ReleaseSkipped(t) ==
    /\ pc[t] = "release"
    /\ pc' = [pc EXCEPT ![t] = "done"]
    /\ exit' = [exit EXCEPT ![t] = "normal"]
    /\ UNCHANGED <<sp, heap, alloc, nreq, c, req, nops, hout, calls, nput, resp, routerVars, dec, rw, cx, reg, bnd>>

\* Router.handler returning with the router's middleware list emptied
ReleaseForgetsMiddleware(t) ==
    /\ pc[t] = "release"
    /\ heap' = [heap EXCEPT ![c[t]] = detach(heap[c[t]])]
    /\ sp' = poolPut(c[t])
    /\ nput' = [nput EXCEPT ![t] = nput[t] + 1]
    /\ pc' = [pc EXCEPT ![t] = "done"]
    /\ exit' = [exit EXCEPT ![t] = "normal"]
    /\ mws' = <<>>
    /\ UNCHANGED <<alloc, nreq, c, req, nops, hout, calls, resp, mux, on404, on405, grp, seen,
                   regout, last, dec, rw, cx, reg, bnd>>

\* Router.handler, lines 128-130 without the put: c.detach() only
ReleaseNoPut(t) ==
    /\ pc[t] = "release"
    /\ heap' = [heap EXCEPT ![c[t]] = detach(heap[c[t]])]
    /\ pc' = [pc EXCEPT ![t] = "done"]
    /\ exit' = [exit EXCEPT ![t] = "normal"]
    /\ UNCHANGED <<sp, alloc, nreq, c, req, nops, hout, calls, nput, resp, routerVars, dec, rw, cx, reg, bnd>>

\* Router.handler, lines 128-130: c.detach(); r.ctx.put(c); then the call returns
Release(t) ==
    /\ pc[t] = "release"
    /\ heap' = [heap EXCEPT ![c[t]] = detach(heap[c[t]])]
    /\ sp' = poolPut(c[t])
    /\ nput' = [nput EXCEPT ![t] = nput[t] + 1]
    /\ pc' = [pc EXCEPT ![t] = "done"]
    /\ exit' = [exit EXCEPT ![t] = "normal"]
    /\ UNCHANGED <<alloc, nreq, c, req, nops, hout, calls, resp, routerVars, dec, rw, cx, reg, bnd>>

Next ==
    \/ \E t \in Tasks : Acquire(t)
    \/ \E t \in Tasks, k \in Keys : HandlerSet(t, k, req[t])
    \/ \E t \in Tasks : HandlerReturn(t, "nil", NoVal)
    \/ \E t \in Tasks, e \in Errors : HandlerReturn(t, "err", e)
    \/ \E t \in Tasks, p \in Payloads : HandlerReturn(t, "panic", p)
    \/ \E t \in Tasks, out \in {"ok", "panic"} : ErrHandlerReturn(t, out)
    \/ \E t \in Tasks : Release(t)

Spec == Init /\ [][Next]_vars

\* one goroutine's requests with the writes of the handlers
NextRespond ==
    \/ Acquire(1)
    \/ \E k \in Keys : HandlerSet(1, k, req[1])
    \/ HandlerWrite(1, 200)
    \/ HandlerReturn(1, "nil", NoVal)
    \/ \E e \in Errors : HandlerReturn(1, "err", e)
    \/ \E p \in Payloads : HandlerReturn(1, "panic", p)
    \/ ErrHandlerWrite(1)
    \/ \E out \in {"ok", "panic"} : ErrHandlerReturn(1, out)
    \/ Release(1)

SpecRespond == Init /\ [][NextRespond]_vars

\* ------------------------------------- registration and dispatch actions
\* The routes, handlers, groups and middleware are set up first and requests
\* are served afterwards: a set-up call is taken while no request has been
\* served (last = NoRequest).
\* Router.GET, Router.POST: r.handle(method, pattern, h) with a fresh function
\* literal h; dup tells a handler passed for a route that is registered already
RouterHandle(method, pattern) ==
    /\ last = NoRequest
    /\ Cardinality(mux) < MaxRoutes
    /\ LET dup == \E rt \in mux : rt.method = method /\ rt.pattern = pattern
           res == handle(method, pattern, routeHandler(method, pattern, dup))
       IN  /\ mux' = res.mux
           /\ regout' = res.out
           /\ seen' = IF res.out = "panic" THEN seen
                      ELSE seen \cup {[method |-> method, pattern |-> pattern,
                                        scope |-> "router", rmws |-> mws,
                                        gmws |-> <<>>, inh |-> 0]}
    /\ last' = NoRequest
    /\ UNCHANGED <<mws, on404, on405, grp, lifeVars, dec, rw, cx, reg, bnd>>

\* Router.On404(h)
On404 ==
    /\ last = NoRequest
    /\ on404 = named("default404")
    /\ on404' = named("custom404")
    /\ last' = NoRequest
    /\ regout' = "none"
    /\ UNCHANGED <<mux, mws, on405, grp, seen, lifeVars, dec, rw, cx, reg, bnd>>

\* Router.On405(h) with h wrapped in the router's middleware like a route
On405Wrapped ==
    /\ last = NoRequest
    /\ on405 = named("default405")
    /\ on405' = wrapAll(mws, Len(mws), named("custom405"))
    /\ last' = NoRequest
    /\ regout' = "none"
    /\ UNCHANGED <<mux, mws, on404, grp, seen, lifeVars, dec, rw, cx, reg, bnd>>

\* Router.On405(h)
On405 ==
    /\ last = NoRequest
    /\ on405 = named("default405")
    /\ on405' = named("custom405")
    /\ last' = NoRequest
    /\ regout' = "none"
    /\ UNCHANGED <<mux, mws, on404, grp, seen, lifeVars, dec, rw, cx, reg, bnd>>

\* Router.ServeHTTP(w, req); one request is followed on each set of routes
ServeHTTP(method, path) ==
    /\ last = NoRequest
    /\ last' = serve(method, path)
    /\ regout' = "none"
    /\ UNCHANGED <<mux, mws, on404, on405, grp, seen, lifeVars, dec, rw, cx, reg, bnd>>

NextDispatch ==
    \/ \E m \in RegMethods, p \in Patterns : RouterHandle(m, p)
    \/ On404
    \/ On405
    \/ \E m \in ReqMethods, p \in Paths : ServeHTTP(m, p)

SpecDispatch == Init /\ [][NextDispatch]_vars

\* ------------------------------------------------------------ Context.Bind
\* decodeJSON(c, v) runs to its end; body is the body as the decoder met it
\* and err what the first Decode returned
DecodeJSON ==
    /\ dec.called
    /\ dec.out = NoResult
    /\ dec' = [dec EXCEPT !.body = MaxBytesReader(dec.sent),
                          !.err = Decode(dec.target, MaxBytesReader(dec.sent)),
                          !.out = decodeJSON(dec.target, dec.sent)]
    /\ UNCHANGED <<lifeVars, routerVars, rw, cx, reg, bnd>>

InitDecode == InitRouter /\ dec \in Calls /\ InitWriter /\ InitContext /\ InitIndexed /\ InitBind

NextDecode == DecodeJSON

SpecDecode == InitDecode /\ [][NextDecode]_vars

\* ------------------------------------------- middleware and group actions
\* the Use calls made so far: a nested group's inherited middleware is no call
useCalls ==
    Len(mws) + Len(grp["api"].mws) + (Len(grp["v1"].mws) - grp["v1"].inh)
             + (Len(grp["v2"].mws) - grp["v2"].inh)

\* Router.Use(m) that wraps the routes registered already as well
RouterUseRewraps(m) ==
    /\ last = NoRequest
    /\ useCalls < MaxUse
    /\ mws' = Append(mws, m)
    /\ mux' = {[rt EXCEPT !.h.mws = Append(mws, m) \o SubSeq(@, Len(mws) + 1, Len(@))] : rt \in mux}
    /\ last' = NoRequest
    /\ regout' = "none"
    /\ UNCHANGED <<on404, on405, grp, seen, lifeVars, dec, rw, cx, reg, bnd>>

\* Router.Use(m)
RouterUse(m) ==
    /\ last = NoRequest
    /\ useCalls < MaxUse
    /\ mws' = Append(mws, m)
    /\ last' = NoRequest
    /\ regout' = "none"
    /\ UNCHANGED <<mux, on404, on405, grp, seen, lifeVars, dec, rw, cx, reg, bnd>>

\* api := r.Group("/a")
RouterGroup ==
    /\ last = NoRequest
    /\ ~grp["api"].made
    /\ grp' = [grp EXCEPT !["api"] = [made |-> TRUE, prefix |-> <<"a">>,
                                       mws |-> <<>>, inh |-> 0, at |-> Len(mws)]]
    /\ last' = NoRequest
    /\ regout' = "none"
    /\ UNCHANGED <<mux, mws, on404, on405, seen, lifeVars, dec, rw, cx, reg, bnd>>

\* v1 := api.Group("/a") with the parent's middleware left behind
GroupGroupEmpty ==
    /\ last = NoRequest
    /\ grp["api"].made
    /\ ~grp["v1"].made
    /\ grp' = [grp EXCEPT !["v1"] = [made |-> TRUE,
                                      prefix |-> grp["api"].prefix \o <<"a">>,
                                      mws |-> <<>>, inh |-> 0, at |-> grp["api"].at]]
    /\ last' = NoRequest
    /\ regout' = "none"
    /\ UNCHANGED <<mux, mws, on404, on405, seen, lifeVars, dec, rw, cx, reg, bnd>>

\* v1 := api.Group("/a"): the prefixes joined, the parent's middleware copied
GroupGroup ==
    /\ last = NoRequest
    /\ grp["api"].made
    /\ ~grp["v1"].made
    /\ grp' = [grp EXCEPT !["v1"] = [made |-> TRUE,
                                      prefix |-> grp["api"].prefix \o <<"a">>,
                                      mws |-> <<>> \o grp["api"].mws,
                                      inh |-> Len(grp["api"].mws), at |-> grp["api"].at]]
    /\ last' = NoRequest
    /\ regout' = "none"
    /\ UNCHANGED <<mux, mws, on404, on405, seen, lifeVars, dec, rw, cx, reg, bnd>>

\* v2 := api.Group("/b"): a second group nested in api
GroupGroupSibling ==
    /\ last = NoRequest
    /\ grp["api"].made
    /\ ~grp["v2"].made
    /\ grp' = [grp EXCEPT !["v2"] = [made |-> TRUE,
                                      prefix |-> grp["api"].prefix \o <<"b">>,
                                      mws |-> <<>> \o grp["api"].mws,
                                      inh |-> Len(grp["api"].mws), at |-> grp["api"].at]]
    /\ last' = NoRequest
    /\ regout' = "none"
    /\ UNCHANGED <<mux, mws, on404, on405, seen, lifeVars, dec, rw, cx, reg, bnd>>

\* Group.Use on one middleware list that all groups share
GroupUseShared(g, m) ==
    /\ last = NoRequest
    /\ grp[g].made
    /\ useCalls < MaxUse
    /\ grp' = [x \in Groups |->
                 IF grp[x].made THEN [grp[x] EXCEPT !.mws = Append(@, m)] ELSE grp[x]]
    /\ last' = NoRequest
    /\ regout' = "none"
    /\ UNCHANGED <<mux, mws, on404, on405, seen, lifeVars, dec, rw, cx, reg, bnd>>

\* Group.Use(m)
GroupUse(g, m) ==
    /\ last = NoRequest
    /\ grp[g].made
    /\ useCalls < MaxUse
    /\ grp' = [grp EXCEPT ![g].mws = Append(@, m)]
    /\ last' = NoRequest
    /\ regout' = "none"
    /\ UNCHANGED <<mux, mws, on404, on405, seen, lifeVars, dec, rw, cx, reg, bnd>>

\* Group.GET, Group.POST: g.handle(method, pattern, h) with a fresh function
\* literal h
GroupHandle(g, method, pattern) ==
    /\ last = NoRequest
    /\ grp[g].made
    /\ Cardinality(mux) < MaxRoutes
    /\ LET full == grp[g].prefix \o pattern
           dup == \E rt \in mux : rt.method = method /\ rt.pattern = full
           res == groupHandle(grp[g], method, pattern, routeHandler(method, full, dup))
       IN  /\ mux' = res.mux
           /\ regout' = res.out
           /\ seen' = IF res.out = "panic" THEN seen
                      ELSE seen \cup {[method |-> method, pattern |-> full,
                                        scope |-> g, rmws |-> mws,
                                        gmws |-> grp[g].mws, inh |-> grp[g].inh]}
    /\ last' = NoRequest
    /\ UNCHANGED <<mws, on404, on405, grp, lifeVars, dec, rw, cx, reg, bnd>>

\* the request paths of the routes "/b", "/a/b", "/a/a/b" and "/a/b/b"
ChainPaths ==
    {[segs |-> s, slash |-> FALSE] :
        s \in {<<"b">>, <<"a", "b">>, <<"a", "a", "b">>, <<"a", "b", "b">>}}

\* the router is given A first and B from then on
routerMiddleware == IF mws = <<>> THEN "A" ELSE "B"

NextChain ==
    \/ RouterUse(routerMiddleware)
    \/ RouterGroup
    \/ GroupGroup
    \/ GroupGroupSibling
    \/ \E g \in Groups : GroupUse(g, GroupMiddleware[g])
    \/ RouterHandle("GET", <<"b">>)
    \/ \E g \in Groups : GroupHandle(g, "GET", <<"b">>)
    \/ \E p \in ChainPaths : ServeHTTP("GET", p)

SpecChain == Init /\ [][NextChain]_vars

\* routes behind middleware of which some do not call next
NextShort ==
    \/ \E m \in {"A"} \cup ShortCircuits : RouterUse(m)
    \/ RouterGroup
    \/ \E m \in {"G"} \cup ShortCircuits : GroupUse("api", m)
    \/ RouterHandle("GET", <<"b">>)
    \/ GroupHandle("api", "GET", <<"b">>)
    \/ \E p \in ChainPaths : ServeHTTP("GET", p)

SpecShort == Init /\ [][NextShort]_vars

\* ------------------------------------------------- the whole ServeHTTP call
\* the routes "/a/b" and "/a/{rest...}" and the request paths "/a/b", "/a",
\* "/b" and "/a/b/"
ServePatterns == {<<"a", "b">>, <<"a", Multi>>}
ServePaths ==
    {[segs |-> <<"a", "b">>, slash |-> FALSE], [segs |-> <<"a">>, slash |-> FALSE],
     [segs |-> <<"b">>, slash |-> FALSE], [segs |-> <<"a", "b">>, slash |-> TRUE]}

\* Router.ServeHTTP(w, req) is called by goroutine t (lines 140-163):
\* r.mux.Handler(req) resolves the request; the route's handler, r.on405 or
\* r.on404 is invoked, each a closure of Router.handler that begins with
\* c := r.ctx.get(); c.attach(w, req) (lines 119-121); the mux's redirect
\* is answered by the mux and invokes no handler of the router
ServeBegin(t, method, path) ==
    /\ pc[t] \in {"idle", "done"}
    /\ nreq < MaxReq
    /\ last' = serve(method, path)
    /\ regout' = "none"
    /\ nreq' = nreq + 1
    /\ req' = [req EXCEPT ![t] = nreq + 1]
    /\ nops' = [nops EXCEPT ![t] = 0]
    /\ hout' = [hout EXCEPT ![t] = [out |-> "none", val |-> NoVal]]
    /\ calls' = [calls EXCEPT ![t] = <<>>]
    /\ nput' = [nput EXCEPT ![t] = 0]
    /\ resp' = [resp EXCEPT ![t] = <<>>]
    /\ IF serve(method, path).served = "redirect"
       THEN /\ pc' = [pc EXCEPT ![t] = "done"]
            /\ exit' = [exit EXCEPT ![t] = "normal"]
            /\ c' = [c EXCEPT ![t] = 0]
            /\ UNCHANGED <<sp, alloc, heap>>
       ELSE /\ pc' = [pc EXCEPT ![t] = "handler"]
            /\ exit' = [exit EXCEPT ![t] = "none"]
            /\ \E g \in poolGet :
                  /\ sp' = g.sp
                  /\ alloc' = g.alloc
                  /\ heap' = [g.heap EXCEPT ![g.c] = attach(g.heap[g.c], nreq + 1, nreq + 1)]
                  /\ c' = [c EXCEPT ![t] = g.c]
    /\ UNCHANGED <<mux, mws, on404, on405, grp, seen, dec, rw, cx, reg, bnd>>

\* the handler invoked returns nil, returns an error or panics
HandlerEnds(t) ==
    \/ HandlerReturn(t, "nil", NoVal)
    \/ \E e \in Errors : HandlerReturn(t, "err", e)
    \/ \E p \in Payloads : HandlerReturn(t, "panic", p)

\* the error handler returns or panics
ErrHandlerEnds(t) == \E out \in {"ok", "panic"} : ErrHandlerReturn(t, out)

NextServe ==
    \/ \E p \in ServePatterns : RouterHandle("GET", p)
    \/ \E m \in RegMethods, p \in ServePaths : ServeBegin(1, m, p)
    \/ HandlerEnds(1)
    \/ ErrHandlerEnds(1)
    \/ Release(1)

\* the handlers return or panic (the premise of the claim), and the
\* goroutine goes on through the deferred function of Router.handler
SpecServe ==
    /\ Init
    /\ [][NextServe]_vars
    /\ WF_vars(HandlerEnds(1))
    /\ WF_vars(ErrHandlerEnds(1))
    /\ WF_vars(Release(1))


\* the router is configured (routes, middleware, a group, the 404 and 405
\* handlers) and then serves requests whose handlers return or panic
NextConfigured ==
    \/ RouterUse("A")
    \/ RouterGroup
    \/ GroupUse("api", "G")
    \/ On404
    \/ On405
    \/ RouterHandle("GET", <<"a", "b">>)
    \/ \E m \in RegMethods : ServeBegin(1, m, [segs |-> <<"a", "b">>, slash |-> FALSE])
    \/ HandlerEnds(1)
    \/ ErrHandlerEnds(1)
    \/ Release(1)

SpecConfigured == Init /\ [][NextConfigured]_vars

\* ------------------------------------------------------------ dispatch
\* the path matches the pattern: segment by segment, a capture taking any
\* one segment and the catch-all the rest of the path after a slash
Matches(pat, path) ==
    IF lastSegment(pat) = Multi
    THEN /\ walkLen(path) >= Len(pat)
         /\ \A i \in 1..(Len(pat) - 1) : pat[i] \in {Wild, path.segs[i]}
    ELSE /\ ~path.slash
         /\ Len(path.segs) = Len(pat)
         /\ \A i \in 1..Len(pat) : pat[i] \in {Wild, path.segs[i]}

\* the routes registered with the method whose pattern the path matches
RoutesFor(method, path) ==
    {rt \in mux : rt.method = method /\ Matches(rt.pattern, path)}

\* the methods whose routes serve a request method: GET routes serve HEAD
Serving(method) == IF method = "HEAD" THEN {"HEAD", "GET"} ELSE {method}

\* the path is the root of a subtree without its slash: a catch-all route
\* serving the method matches the path plus "/" with nothing left to capture
SubtreeRoot(method, path) ==
    /\ ~path.slash
    /\ \E rt \in mux :
          /\ rt.method \in Serving(method)
          /\ Len(rt.pattern) = Len(path.segs) + 1
          /\ Matches(rt.pattern, withSlash(path))

\* the request has been served
Served == last.served # "none"

\* C5 as stated: every route of the request's method whose pattern the path
\* matches has its handler invoked
C5_EveryMatchingRouteInvoked ==
    Served =>
        \A rt \in RoutesFor(last.method, last.path) :
            last.served = "route" /\ last.h = rt.h

\* C5: of the routes of the request's method whose pattern the path matches,
\* the most specific one has its handler invoked, and no other handler is,
\* also when its pattern is registered under several methods; unless that
\* route is a catch-all and the path a subtree root without its slash, which
\* the mux redirects and no handler sees
C5_MostSpecificRouteInvoked ==
    Served =>
        \A rt \in RoutesFor(last.method, last.path) :
            (\A o \in RoutesFor(last.method, last.path) \ {rt} :
                comparePaths(rt.pattern, o.pattern) = "moreSpecific")
            => IF lastSegment(rt.pattern) = Multi /\ SubtreeRoot(last.method, last.path)
               THEN last.served = "redirect" /\ last.h = NoHandler
               ELSE last.served = "route" /\ last.h = rt.h

\* a request was dispatched to the POST route of a pattern that GET has too
C5_Witness ==
    /\ last.served = "route"
    /\ last.method = "POST"
    /\ \E g \in mux, q \in mux :
          /\ g.method = "GET" /\ q.method = "POST" /\ g.pattern = q.pattern
          /\ Matches(q.pattern, last.path)
          /\ last.h = q.h

\* the path matches a route of another method and none of the request's own
OtherMethodOnly(method, path) ==
    /\ RoutesFor(method, path) = {}
    /\ \E m \in RegMethods \ {method} : RoutesFor(m, path) # {}

\* C6 as stated: a request whose path matches a route of another method and
\* none of its own is answered by the method-not-allowed handler
C6_OtherMethodIs405 ==
    Served /\ OtherMethodOnly(last.method, last.path)
    => last.served = "on405" /\ last.h = on405

\* C6: a request whose path matches a route of another method and none of its
\* own is answered by the method-not-allowed handler, never by the not-found
\* handler or a route's; unless it is a HEAD request on a path a GET route
\* matches, which that route serves, or its path is a subtree root without
\* its slash for a catch-all route serving its method, which the mux redirects
C6_OtherMethodIs405UnlessHeadOrRedirect ==
    Served /\ OtherMethodOnly(last.method, last.path)
           /\ ~(last.method = "HEAD" /\ RoutesFor("GET", last.path) # {})
    => IF SubtreeRoot(last.method, last.path)
       THEN last.served = "redirect" /\ last.h = NoHandler
       ELSE last.served = "on405" /\ last.h = on405

\* a POST request on a path only a GET route matches got the 405 handler
C6_Witness ==
    /\ last.served = "on405"
    /\ last.h = on405
    /\ last.method = "POST"
    /\ RoutesFor("GET", last.path) # {}
    /\ RoutesFor("POST", last.path) = {}

\* the path matches no route of any method
NoRouteFor(path) == \A m \in RegMethods : RoutesFor(m, path) = {}

\* C7 as stated: a request whose path matches no route of any method is
\* answered by the not-found handler
C7_UnmatchedIs404 ==
    Served /\ NoRouteFor(last.path)
    => last.served = "on404" /\ last.h = on404

\* C7: a request whose path matches no route of any method, and neither does
\* its path with a slash added, is answered by the configured not-found
\* handler, whatever its method, also on a router without routes
C7_UnmatchedWithAndWithoutSlashIs404 ==
    Served /\ NoRouteFor(last.path)
           /\ (last.path.slash \/ NoRouteFor(withSlash(last.path)))
    => last.served = "on404" /\ last.h = on404

\* a router with routes answered a request with a custom not-found handler
C7_Witness ==
    /\ mux # {}
    /\ NoRouteFor(last.path)
    /\ last.served = "on404"
    /\ last.h = named("custom404")

\* the Allow text of a set of methods
AllowText(ms) ==
    CASE ms = {"GET"} -> "GET"
      [] ms = {"POST"} -> "POST"
      [] ms = {"GET", "POST"} -> "GET, POST"
      [] ms = {"GET", "HEAD"} -> "GET, HEAD"
      [] ms = {"GET", "HEAD", "POST"} -> "GET, HEAD, POST"
      [] OTHER -> "?"

\* the methods with a route the path matches
MethodsFor(path) == {m \in RegMethods : RoutesFor(m, path) # {}}

\* C8 as stated: a response of the method-not-allowed path has an Allow header
\* listing exactly the methods registered for the path, joined by ", "
C8_AllowIsRegisteredMethods ==
    last.served = "on405" => last.header.Allow = AllowText(MethodsFor(last.path))

\* C8: a response of the method-not-allowed path has an Allow header listing,
\* each once, in sorted order and joined by ", ", the methods registered for
\* the path or for the path with a slash added, and HEAD when GET is one
C8_AllowIsMethodsWithSlashAndHead ==
    last.served = "on405" =>
        LET ms == MethodsFor(last.path) \cup
                  (IF last.path.slash THEN {} ELSE MethodsFor(withSlash(last.path)))
        IN  last.header.Allow =
                AllowText(ms \cup (IF "GET" \in ms THEN {"HEAD"} ELSE {}))

\* a DELETE request on a path with a GET and a POST route: Allow names both
C8_Witness ==
    /\ last.served = "on405"
    /\ last.method = "DELETE"
    /\ MethodsFor(last.path) = {"GET", "POST"}
    /\ last.header.Allow = "GET, HEAD, POST"

\* ---------------------------------------------------------- middleware
\* the parts of the middleware ms that run before the handler, in order, and
\* the parts that run after it, in reverse
Befores(ms) == [i \in 1..Len(ms) |-> ms[i] \o "-before"]
AftersReversed(ms) == [i \in 1..Len(ms) |-> ms[Len(ms) + 1 - i] \o "-after"]

\* what the registration call of the route just served found
SeenByServed ==
    CHOOSE x \in seen :
        \E rt \in mux : rt.h = last.h /\ rt.method = x.method /\ rt.pattern = x.pattern

\* C9: a request to a route registered on the router after the middleware
\* m1..mn runs the before-parts of m1..mn in registration order, then the
\* handler, then the after-parts in reverse registration order
C9_RouterMiddlewareOrder ==
    last.served = "route" /\ SeenByServed.scope = "router"
    => last.trace = Befores(SeenByServed.rmws) \o <<"H">>
                    \o AftersReversed(SeenByServed.rmws)

\* Use(A), Use(B), then a route: its request ran A, B, H, B, A
C9_Witness ==
    /\ last.served = "route"
    /\ SeenByServed.scope = "router"
    /\ SeenByServed.rmws = <<"A", "B">>
    /\ last.trace = <<"A-before", "B-before", "H", "B-after", "A-after">>

\* C10: a request to a route registered on the nested group runs, up to the
\* handler, the router's middleware registered before the route in
\* registration order, then the middleware the parent group had when the
\* nested group was created, then the nested group's own, then the handler
C10_NestedGroupMiddlewareOrder ==
    last.served = "route" /\ SeenByServed.scope = "v1"
    => LET x == SeenByServed
           parent == SubSeq(grp["api"].mws, 1, x.inh)
           own == SubSeq(x.gmws, x.inh + 1, Len(x.gmws))
           chain == x.rmws \o parent \o own
       IN  /\ Len(last.trace) > Len(chain)
           /\ SubSeq(last.trace, 1, Len(chain) + 1) = Befores(chain) \o <<"H">>

\* router middleware A, parent middleware G, nested middleware N: the request
\* to the nested group's route ran A, G, N, then the handler
C10_Witness ==
    /\ last.served = "route"
    /\ SeenByServed.scope = "v1"
    /\ SeenByServed.rmws = <<"A">>
    /\ SeenByServed.inh = 1
    /\ SeenByServed.gmws = <<"G", "N">>
    /\ SubSeq(last.trace, 1, 4) = <<"A-before", "G-before", "N-before", "H">>

\* the groups a route of the scope lies in: a nested group lies in its parent
GroupsAround(scope) ==
    CASE scope = "router" -> {}
      [] scope = "api" -> {"api"}
      [] OTHER -> {scope, "api"}

\* C11: the middleware added to a group with Group.Use never runs for a
\* request served by a route registered outside that group: on the router, on
\* a sibling group or on the parent group, in whatever order the Group, Use
\* and route calls were made
C11_GroupMiddlewareIsolated ==
    last.served = "route" =>
        \A g \in Groups \ GroupsAround(SeenByServed.scope) :
            \A i \in 1..Len(last.trace) :
                last.trace[i] # GroupMiddleware[g] \o "-before"

\* both nested groups have their middleware; a request to v1's route ran v1's
\* and not the sibling's
C11_Witness ==
    /\ last.served = "route"
    /\ SeenByServed.scope = "v1"
    /\ grp["v1"].mws = <<"N">>
    /\ grp["v2"].mws = <<"S">>
    /\ last.trace = <<"N-before", "H", "N-after">>

\* ------------------------------------------------------- request lifecycle
InFlight == {"handler", "onErr", "recovered", "release"}

\* the Context of task t's request lies in the pool again, detached and with
\* no locals, or another request has taken it from there since
BackInPool(t) ==
    \/ /\ c[t] \in sp
       /\ heap[c[t]].w = Nil /\ heap[c[t]].r = Nil /\ heap[c[t]].len = 0
    \/ \E u \in Tasks \ {t} : pc[u] \in InFlight /\ c[u] = c[t]

\* C1: the context handed to the handler has zero locals at the start of the
\* request, and whatever key a request reads with Get at any moment, it gets
\* nil or a value it stored itself, never a value an earlier request stored,
\* also on a reused pooled Context.
C1_LocalsIsolated ==
    \A t \in Tasks :
        /\ (pc[t] = "handler" /\ nops[t] = 0) => heap[c[t]].len = 0
        /\ pc[t] \in InFlight =>
              \A k \in Keys : Get(heap[c[t]], k) \in {Nil, req[t]}

\* a request starts on a reused Context whose backing array still holds an
\* entry of an earlier request
C1_Witness ==
    \E t \in Tasks :
        /\ pc[t] = "handler"
        /\ Len(heap[c[t]].locals) >= 1
        /\ heap[c[t]].locals[1].value \notin {Nil, req[t]}

\* C2: while a request is served its context has not been put back, and once
\* ServeHTTP has returned it has been put back exactly once, detached, on
\* every exit path (nil, error, handler panic, error handler panic).
C2_ReleasedExactlyOnce ==
    \A t \in Tasks :
        /\ pc[t] \in InFlight => nput[t] = 0 /\ c[t] \notin sp
        /\ pc[t] = "done" => nput[t] = 1 /\ BackInPool(t)

\* two requests are over, one whose handler panicked and whose error handler
\* panicked too, one whose handler returned an error
C2_Witness ==
    \E t, u \in Tasks :
        /\ pc[t] = "done" /\ hout[t].out = "panic"
        /\ Len(calls[t]) = 1 /\ calls[t][1].out = "panic"
        /\ pc[u] = "done" /\ hout[u].out = "err"

\* C3: a panic of the handler chain never leaves ServeHTTP; the error handler
\* is invoked with the request's own context, still attached, and the error
\* "panic: <payload>"; the task can serve its next request afterwards.
C3_PanicRecovered ==
    \A t \in Tasks :
        /\ exit[t] # "panic"
        /\ (hout[t].out = "panic") =>
              /\ Len(calls[t]) = 1
              /\ calls[t][1].err = "panic: " \o hout[t].val
              /\ calls[t][1].c = c[t]
              /\ calls[t][1].r = req[t] /\ calls[t][1].w = req[t]
        /\ (pc[t] = "done" /\ nreq < MaxReq) => ENABLED Acquire(t)

\* a task serves a request after one of its requests ended in a handler panic
\* that went through the error handler: the other task's request panicked
C3_Witness ==
    \E t, u \in Tasks :
        /\ pc[t] = "done" /\ hout[t].out = "panic" /\ exit[t] = "normal"
        /\ calls[t][1].err = "panic: boom"
        /\ pc[u] = "handler" /\ req[u] > req[t]

\* C4: when the error handler panics, for a returned error or for a recovered
\* panic, ServeHTTP returns normally and the context is back in the pool.
C4_ErrHandlerPanicSwallowed ==
    \A t \in Tasks :
        (pc[t] = "done" /\ \E i \in 1..Len(calls[t]) : calls[t][i].out = "panic") =>
            /\ exit[t] = "normal"
            /\ nput[t] = 1
            /\ BackInPool(t)

\* both cases at once: an error handler that panicked on a returned error
\* and one that panicked on a recovered panic
C4_Witness ==
    \E t, u \in Tasks :
        /\ pc[t] = "done" /\ hout[t].out = "err" /\ calls[t][1].out = "panic"
        /\ pc[u] = "done" /\ hout[u].out = "panic" /\ calls[u][1].out = "panic"
        /\ exit[t] = "normal" /\ exit[u] = "normal"

\* C12: when the handler chain returns a non-nil error without panicking, the
\* error handler is invoked, once, with the request's own context, still
\* attached, and that same error value; the request then ends normally, its
\* context released.
C12_ReturnedErrorHandled ==
    \A t \in Tasks :
        hout[t].out = "err" =>
            /\ Len(calls[t]) = 1
            /\ calls[t][1].err = hout[t].val
            /\ calls[t][1].c = c[t]
            /\ calls[t][1].r = req[t] /\ calls[t][1].w = req[t]
            /\ pc[t] = "done" =>
                  exit[t] = "normal" /\ nput[t] = 1 /\ BackInPool(t)

\* a request is over whose handler returned "fail" and whose error handler
\* returned
C12_Witness ==
    \E t \in Tasks :
        /\ pc[t] = "done" /\ exit[t] = "normal"
        /\ hout[t] = [out |-> "err", val |-> "fail"]
        /\ calls[t][1].err = "fail" /\ calls[t][1].out = "ok"


\* every handler answers as its contract asks: a handler chain that returns
\* nil has written its response, and a call of the error handler that returns
\* has written the error response
HandlersRespond(t) ==
    /\ hout[t].out = "nil" => Cardinality(writesOf(t, 0)) = 1
    /\ \A k \in 1..Len(calls[t]) :
           calls[t][k].out = "ok" => Cardinality(writesOf(t, k)) = 1

\* C13: every request ends with exactly one response write, never zero and
\* never more than one, on every path: handler returning nil, handler
\* returning an error (also after it wrote a response), handler panic and
\* error-handler panic.
C13_ExactlyOneResponseWrite ==
    \A t \in Tasks :
        (pc[t] = "done" /\ HandlersRespond(t)) => Len(resp[t]) = 1


\* C14: under any interleaving a pooled Context is held by at most one
\* in-flight request: no two requests in flight hold the same instance, the
\* instance stays attached to its holder's request and response, and every
\* local in it is one its holder set.
C14_OneHolderPerContext ==
    \A t \in Tasks : pc[t] \in InFlight =>
        /\ \A u \in Tasks \ {t} : pc[u] \in InFlight => c[u] # c[t]
        /\ heap[c[t]].r = req[t] /\ heap[c[t]].w = req[t]
        /\ \A i \in 1..heap[c[t]].len : heap[c[t]].locals[i].value = req[t]

\* two requests are in flight together and each has set a local
C14_Witness ==
    \E t, u \in Tasks :
        /\ t # u /\ pc[t] = "handler" /\ pc[u] = "handler"
        /\ heap[c[t]].len = 1 /\ heap[c[u]].len = 1
        /\ heap[c[t]].locals[1].value = req[t]
        /\ heap[c[u]].locals[1].value = req[u]


\* what a holder of a reference to Context x can read from it
observed(x) == {heap[x].w, heap[x].r} \cup {Get(heap[x], k) : k \in Keys}

\* C15: after a request's context has been released, a holder of a lingering
\* reference to it never observes the request, response or locals of a later
\* request, also after the pool has handed the instance to a later request.
C15_StaleReferenceSeesNoLaterRequest ==
    \A t \in Tasks :
        pc[t] = "done" => \A v \in observed(c[t]) : v <= req[t]


\* ---------------------------------------------------------- registration
\* the (method, pattern) pair is registered
Registered(method, pattern) ==
    \E rt \in mux : rt.method = method /\ rt.pattern = pattern

\* C16: registering a (method, pattern) pair that is registered already fails
\* every time (the call panics) and leaves the routes as they were; no
\* handler passed on such a call is ever bound, so requests for the pair
\* still reach the first handler.
C16_DuplicateRegistrationFails ==
    /\ [][\A m \in RegMethods, p \in Patterns :
              (Registered(m, p) /\ RouterHandle(m, p)) =>
                  (regout' = "panic" /\ mux' = mux)]_vars
    /\ [](\A rt \in mux : ~rt.h.h.dup)
    /\ [](last.served = "route" => ~last.h.h.dup)

\* GET /a was registered and has just been registered a second time: the
\* call panicked and the route is still bound to the first handler
C16_Witness ==
    /\ mux = {[method |-> "GET", pattern |-> <<"a">>,
               h |-> routeHandler("GET", <<"a">>, FALSE)]}
    /\ regout = "panic"


\* ------------------------------------------------------- path parameters
\* Context.Param(name): c.r.PathValue(name) of the request served
Param(name) == last.params[name]

\* the segments joined by "/"
RECURSIVE JoinSlash(_)
JoinSlash(segs) ==
    IF Len(segs) = 0 THEN ""
    ELSE IF Len(segs) = 1 THEN segs[1]
    ELSE segs[1] \o "/" \o JoinSlash(Tail(segs))

\* the path segments a catch-all at the end of the pattern takes
Remaining(pat, path) == SubSeq(path.segs, Len(pat), Len(path.segs))

\* the pattern of the route served
ServedPattern == last.h.h.pattern

\* C17 as stated: the handler reads under the capture's name the one segment
\* at the capture's place, and under the catch-all's name the remaining path
\* segments joined by "/"
C17_CatchAllIsSegmentsJoined ==
    last.served = "route" =>
        /\ \A i \in 1..Len(ServedPattern) :
               ServedPattern[i] = Wild => Param("id") = last.path.segs[i]
        /\ lastSegment(ServedPattern) = Multi =>
               Param("rest") = JoinSlash(Remaining(ServedPattern, last.path))

\* C17: the handler reads under the capture's name the one segment at the
\* capture's place, and under the catch-all's name the rest of the path: the
\* remaining segments joined by "/", with the slash that ends the path kept
\* after them, and the empty string when the path ends at the slash before
\* the catch-all
C17_CatchAllIsRestOfPath ==
    last.served = "route" =>
        /\ \A i \in 1..Len(ServedPattern) :
               ServedPattern[i] = Wild => Param("id") = last.path.segs[i]
        /\ lastSegment(ServedPattern) = Multi =>
               LET segs == Remaining(ServedPattern, last.path)
               IN  /\ Param("rest") =
                          JoinSlash(segs) \o (IF segs # <<>> /\ last.path.slash
                                              THEN "/" ELSE "")
                   /\ segs = <<>> => last.path.slash /\ Param("rest") = ""

\* "/a/b/" is served by the route "/{rest...}": two segments are joined and
\* the slash that ends the path follows them
C17_Witness ==
    /\ last.served = "route"
    /\ ServedPattern = <<Multi>>
    /\ last.path = [segs |-> <<"a", "b">>, slash |-> TRUE]
    /\ Param("rest") = "a/b/"


\* ------------------------------------------------------------- decodeJSON
\* the causes in the order decodeJSON tests them
Priority ==
    <<"invalid target", "empty body", "truncated", "size limit", "unknown field",
      "syntax error", "type mismatch">>

\* the cause holds of the target and the body of the call
Applies(cause) ==
    CASE cause = "invalid target" -> dec.target = "nonPointer"
      [] cause = "empty body" -> dec.body.first = "empty"
      [] cause = "truncated" -> dec.body.first = "truncated"
      [] cause = "size limit" -> dec.body.first = "oversize"
      [] cause = "unknown field" ->
           /\ dec.body.first = "object"
           /\ \E i \in 1..Len(dec.body.members) : dec.body.members[i] = "unknown"
      [] cause = "syntax error" -> dec.body.first = "syntax"
      [] OTHER ->
           \/ dec.body.first = "scalar"
           \/ /\ dec.body.first = "object"
              /\ \E i \in 1..Len(dec.body.members) : dec.body.members[i] = "mistyped"

\* decodeJSON ended with the report of the cause
Reported(cause) ==
    CASE cause = "invalid target" -> dec.out.kind = "panic"
      [] cause = "empty body" -> dec.out = returnError("body must be valid JSON")
      [] cause = "truncated" -> dec.out = returnError("body contains badly-formed JSON")
      [] cause = "size limit" -> dec.out = returnError("body must not exceed 1048576 bytes")
      [] cause = "unknown field" ->
           dec.out = returnError("body contains unknown field \"extra\"")
      [] cause = "syntax error" -> dec.out = returnError("body contains badly-formed JSON")
      [] OTHER ->
           /\ dec.out.kind = "error"
           /\ dec.out.msg \in
                 {"body contains incorrect type for field \"age\""} \cup
                 {"body contains incorrect type at position " \o ToString(n) :
                     n \in 1..MaxMembers}

Satisfies(err, cause) ==
    CASE cause = "invalid target" -> "InvalidUnmarshalError" \in err.is
      [] cause = "empty body" -> "EOF" \in err.is
      [] cause = "truncated" -> "ErrUnexpectedEOF" \in err.is
      [] cause = "size limit" -> "MaxBytesError" \in err.is
      [] cause = "unknown field" -> err.text.prefix = UnknownFieldPrefix
      [] cause = "syntax error" -> "SyntaxError" \in err.is
      [] OTHER -> "UnmarshalTypeError" \in err.is

\* the report of the cause for the error value
ReportOf(cause, err) ==
    CASE cause = "invalid target" -> [kind |-> "panic", msg |-> Error(err)]
      [] cause = "empty body" -> returnError("body must be valid JSON")
      [] cause \in {"truncated", "syntax error"} ->
           returnError("body contains badly-formed JSON")
      [] cause = "size limit" -> returnError("body must not exceed 1048576 bytes")
      [] cause = "unknown field" ->
           returnError("body contains unknown field " \o err.text.tail)
      [] OTHER ->
           IF err.field = ""
           THEN returnError("body contains incorrect type at position " \o ToString(err.offset))
           ELSE returnError("body contains incorrect type for field \"" \o err.field \o "\"")

\* the first defective member of the object in the body, 0 if none
FirstDefect ==
    LET bad == {i \in 1..Len(dec.body.members) : dec.body.members[i] # "ok"}
    IN  IF bad = {} THEN 0 ELSE CHOOSE i \in bad : \A j \in bad : i <= j

C19_SingleValue ==
    dec.out # NoResult =>
        /\ dec.out = returnNil <=> (dec.err.nil /\ dec.body.rest = "end")
        /\ (dec.err.nil /\ dec.body.rest # "end") =>
              dec.out = returnError("body must only contain a single JSON value")

\* a valid object decoded and the read of what follows it failed
C19_Witness ==
    /\ dec.body.first = "object" /\ dec.body.members = <<"ok", "ok">>
    /\ dec.body.rest = "readError"
    /\ dec.err.nil
    /\ dec.out = returnError("body must only contain a single JSON value")

\* the fixed messages of decodeJSON
Templates ==
    {"body must be valid JSON", "body contains badly-formed JSON",
     "body must not exceed 1048576 bytes",
     "body must only contain a single JSON value",
     "body contains unknown field \"extra\"", "body contains unknown field custom",
     "body contains incorrect type for field \"age\""}
    \cup {"body contains incorrect type at position " \o ToString(n) : n \in 0..MaxMembers}

\* C20 as stated: whenever decodeJSON returns an error, its message is one of
\* the fixed messages, never a lower-level error
C20_EveryErrorIsTemplate ==
    dec.out.kind = "error" => dec.out.msg \in Templates

\* C20: whenever decodeJSON returns an error, its message is one of the fixed
\* messages if the first Decode succeeded or its error is of one of the
\* causes; an error of no cause is returned as it is
C20_ErrorIsTemplateOrUnclassified ==
    dec.out.kind = "error" =>
        IF dec.err.nil \/ \E i \in 1..Len(Priority) : Satisfies(dec.err, Priority[i])
        THEN dec.out.msg \in Templates
        ELSE dec.out.msg = Error(dec.err) /\ dec.out.msg \notin Templates

\* the read of the body failed and decodeJSON returned the read error
C20_Witness ==
    /\ dec.body.first = "readError"
    /\ dec.out = returnError("read: connection reset by peer")


\* the decoder has read a whole value from the body before it fails or ends
ValueRead == dec.body.first \in {"scalar", "object", "custom"}

TooLarge == returnError("body must not exceed 1048576 bytes")

\* the body sent is one well-formed value for the target and nothing after it
WellFormedSingle ==
    /\ dec.sent.first = "object" /\ dec.sent.rest = "end"
    /\ \A i \in 1..Len(dec.sent.members) : dec.sent.members[i] = "ok"

\* C22 as stated: a body whose length exceeds 1,048,576 bytes is rejected with
\* "body must not exceed 1048576 bytes", and a well-formed single-value body
\* of at most that length is never rejected as too large
C22_LongerBodyIsTooLarge ==
    dec.out # NoResult =>
        /\ dec.sent.size > maxBytes => dec.out = TooLarge
        /\ (dec.sent.size <= maxBytes /\ WellFormedSingle) => dec.out # TooLarge

\* C22: the limit is 1,048,576 bytes. A body of at most that length is never
\* rejected as too large, and a well-formed single value of at most that
\* length is accepted for a valid target. A longer body is always rejected:
\* with "body must not exceed 1048576 bytes" if the decoder has to read past
\* the limit for the first value, with "body must only contain a single JSON
\* value" if the first value decodes within the limit, and with the error of
\* the first value if that fails within the limit.
C22_LimitIsMaxBytes ==
    dec.out # NoResult =>
        /\ (dec.sent.size <= maxBytes /\ dec.sent.first # "custom") => dec.out # TooLarge
        /\ (dec.sent.size <= maxBytes /\ WellFormedSingle /\ dec.target = "pointer")
              => dec.out = returnNil
        /\ dec.sent.size > maxBytes => dec.out.kind \in {"error", "panic"}
        /\ dec.sent.need > maxBytes => dec.out = TooLarge
        /\ (dec.sent.need <= maxBytes /\ dec.sent.size > maxBytes) =>
              IF dec.err.nil
              THEN dec.out = returnError("body must only contain a single JSON value")
              ELSE dec.out = classify(Decode(dec.target, dec.sent))

\* a well-formed value ends within the limit and white space fills the body
\* beyond it: the answer is "body must only contain a single JSON value"
C22_Witness ==
    /\ WellFormedSingle
    /\ dec.sent.need = maxBytes /\ dec.sent.size = maxBytes + 1
    /\ dec.target = "pointer"
    /\ dec.out = returnError("body must only contain a single JSON value")

\* ----------------------------------------------------------- locals calls
MaxSets == 3        \* Set calls of the handlers of one request
MaxAttach == 2      \* requests one Context serves
Values == {Nil, 1, 2}

\* c.Set(key, value) by a handler of the request
CxSet(key, value) ==
    /\ Len(cx.sets) < MaxSets
    /\ cx' = [cx EXCEPT !.x = Set(cx.x, key, value),
                        !.sets = Append(@, [key |-> key, value |-> value])]
    /\ UNCHANGED <<lifeVars, routerVars, dec, rw, reg, bnd>>

\* the request ends and the Context serves the next one (Router.handler,
\* lines 119-130: c.detach(), r.ctx.put(c), r.ctx.get(), c.attach(w, req))
CxNext ==
    /\ cx.x.r < MaxAttach
    /\ cx' = [cx EXCEPT !.x = attach(detach(cx.x), cx.x.r + 1, cx.x.r + 1),
                        !.sets = <<>>]
    /\ UNCHANGED <<lifeVars, routerVars, dec, rw, reg, bnd>>

NextLocals ==
    \/ \E k \in Keys, v \in Values : CxSet(k, v)
    \/ CxNext

SpecLocals == Init /\ [][NextLocals]_vars

\* ----------------------------------------------------------- Bind calls
\* a handler calls c.Bind(v) on a request with the header and the body
BindCall(h, target, sent) ==
    /\ ~bnd.called
    /\ bnd' = [header |-> h, target |-> target, sent |-> sent,
               res |-> Bind(h, target, sent), called |-> TRUE]
    /\ UNCHANGED <<lifeVars, routerVars, dec, rw, cx, reg>>

NextBind == \E h \in Headers, t \in Targets, b \in BindBodies : BindCall(h, t, b)

SpecBind == Init /\ [][NextBind]_vars

\* ------------------------------------------------- indexed registration
\* r.GET(path, h), r.POST(path, h) on the router or a group of it (a group
\* shares both muxes and the map); a panic of the call is recovered by the
\* caller and the registry stays as the call left it
IndexedHandle(method, pattern) ==
    /\ Cardinality(reg.mux) < MaxRoutes
    /\ reg' = handleIndexed(reg, method, pattern)
    /\ UNCHANGED <<lifeVars, routerVars, dec, rw, cx, bnd>>

NextIndexed == \E m \in RegMethods, p \in Patterns : IndexedHandle(m, p)

SpecIndexed == Init /\ [][NextIndexed]_vars

\* --------------------------------------------------- ResponseWriter calls
\* rw.WriteHeader(status)
RwWriteHeader(status) ==
    /\ Len(rw.under) < MaxCalls
    /\ LET o == WriteHeader(rw.r, status)
       IN  rw' = [rw EXCEPT !.r = o.r, !.under = Append(@, o.under),
                            !.call = <<"WriteHeader", status>>]
    /\ UNCHANGED <<lifeVars, routerVars, dec, cx, reg, bnd>>

\* n, err := rw.Write(b), the underlying writer returning u
RwWrite(b, u) ==
    /\ Len(rw.under) < MaxCalls
    /\ LET o == Write(rw.r, b, u)
       IN  rw' = [rw EXCEPT !.r = o.r, !.under = Append(@, o.under),
                            !.call = <<"Write", b>>, !.ret = o.ret]
    /\ UNCHANGED <<lifeVars, routerVars, dec, cx, reg, bnd>>

NextWriter ==
    \/ \E status \in Statuses : RwWriteHeader(status)
    \/ \E b \in Data : \E u \in Returns(b) : RwWrite(b, u)

SpecWriter == Init /\ [][NextWriter]_vars

\* ------------------------------------------------------------------ C23
\* the JSON object {"error": "internal server error", "details": err} as
\* json.Marshal encodes it
detailsBody(err) == Marshal([error |-> "internal server error", details |-> err])

\* C23: with no custom error handler configured, a handler error or a
\* recovered panic is answered with status 500 and a JSON body of exactly
\* {"error":"internal server error","details":"<error message>"}.
C23_DefaultErrorBodyHasDetails ==
    \A t \in Tasks : \A i \in 1..Len(resp[t]) :
        resp[t][i].by > 0 =>
            /\ resp[t][i].status = 500
            /\ resp[t][i].body = detailsBody(calls[t][resp[t][i].by].err)

\* ------------------------------------------------------------------ C24
\* C24: with no custom handler configured the not-found outcome is answered
\* with 404 and {"error":"not found"} and the method-not-allowed outcome with
\* 405 and {"error":"method not allowed"}; a handler set with On404 or On405
\* answers the corresponding outcome of every request served after it was set,
\* in place of the default.
C24_DefaultBodiesAndReplacement ==
    /\ last.served = "on404" =>
          IF on404 = named("default404")
          THEN last.resp = [status |-> 404, body |-> "{\"error\":\"not found\"}"]
          ELSE /\ last.h = named("custom404")
               /\ last.resp = [status |-> 404, body |-> "{\"custom\":\"not found\"}"]
    /\ last.served = "on405" =>
          IF on405 = named("default405")
          THEN last.resp = [status |-> 405, body |-> "{\"error\":\"method not allowed\"}"]
          ELSE /\ last.h = named("custom405")
               /\ last.resp = [status |-> 405, body |-> "{\"custom\":\"wrong method\"}"]

\* a request without a route is answered by the handler passed to On404
C24_Witness ==
    /\ last.served = "on404"
    /\ on404 = named("custom404")
    /\ last.resp.body = "{\"custom\":\"not found\"}"

\* ------------------------------------------------------------------ C25
\* the WriteHeader calls among the calls made so far
headerCalls == {i \in 1..Len(rw.under) : rw.under[i].op = "WriteHeader"}

\* C25: Status() is 0 until WriteHeader is called and afterwards the code
\* passed to the most recent WriteHeader call; a Write call never changes it.
C25_StatusIsLatestWriteHeader ==
    /\ headerCalls = {} => Status(rw.r) = 0
    /\ \A i \in headerCalls :
           (\A j \in headerCalls : j <= i) => Status(rw.r) = rw.under[i].status
    /\ Status(rw.r) \in Statuses \cup {0}

\* a second WriteHeader call, a Write after it, and the status is the second code
C25_Witness ==
    /\ Len(rw.under) = 3
    /\ rw.under[1].op = "WriteHeader" /\ rw.under[1].status = 404
    /\ rw.under[2].op = "WriteHeader" /\ rw.under[2].status = 201
    /\ rw.under[3].op = "Write"
    /\ Status(rw.r) = 201

\* ------------------------------------------------------------------ C26
\* the sum of the counts the underlying writer returned from its Write calls
RECURSIVE reported(_)
reported(i) ==
    IF i < 1 THEN 0
    ELSE reported(i - 1) + (IF rw.under[i].op = "Write" THEN rw.under[i].n ELSE 0)

\* C26: Size() is 0 at first and always the sum of the byte counts the
\* underlying writer reported; each Write hands its data to the underlying
\* writer and returns the count and the error the underlying writer returned.
C26_SizeIsSumOfReportedCounts ==
    /\ Size(rw.r) = reported(Len(rw.under))
    /\ rw.under = <<>> => Size(rw.r) = 0
    /\ (rw.call # <<>> /\ rw.call[1] = "Write") =>
           LET u == rw.under[Len(rw.under)]
           IN  /\ u.op = "Write"
               /\ u.b = rw.call[2]
               /\ rw.ret = [n |-> u.n, err |-> u.err]

\* a full write and a short one that failed: the size is what was reported
C26_Witness ==
    /\ Len(rw.under) = 2
    /\ rw.under[1] = [op |-> "Write", b |-> <<"h", "i">>, n |-> 2, err |-> "nil"]
    /\ rw.under[2] = [op |-> "Write", b |-> <<"h", "i">>, n |-> 1, err |-> "closed"]
    /\ Size(rw.r) = 3
    /\ rw.ret = [n |-> 1, err |-> "closed"]

\* ------------------------------------------------------------------ C27
\* the Set calls of this request on the key
setsOf(key) == {i \in 1..Len(cx.sets) : cx.sets[i].key = key}

\* the value of the most recent Set call on the key, nil if there is none
latest(key) ==
    IF setsOf(key) = {} THEN Nil
    ELSE cx.sets[CHOOSE i \in setsOf(key) : \A j \in setsOf(key) : j <= i].value

\* the entries of locals: the slice c.locals, without the rest of its
\* backing array
entries == 1..cx.x.len

\* C27: locals are last-write-wins: Get(k) is the value of the most recent
\* Set(k, v), nil for a key never set; a Set on a key that is present
\* overwrites in place, so the entries do not grow and no two entries share
\* a key.
C27_LastWriteWins ==
    /\ \A k \in Keys : Get(cx.x, k) = latest(k)
    /\ \A i, j \in entries : cx.x.locals[i].key = cx.x.locals[j].key => i = j
    /\ cx.x.len <= Cardinality({k \in Keys : setsOf(k) # {}})

\* a key set three times in one request: one entry, the last value
C27_Witness ==
    /\ cx.sets = <<[key |-> "k1", value |-> 1], [key |-> "k1", value |-> 2],
                   [key |-> "k1", value |-> 1]>>
    /\ cx.x.len = 1
    /\ Get(cx.x, "k1") = 1
    /\ Get(cx.x, "k2") = Nil

\* ------------------------------------------------------------------ C28
\* the keys of the entries of a Context
keysOf(x) == {x.locals[i].key : i \in 1..x.len}

\* the step is a Set call with a nil value
SetNilStep ==
    /\ Len(cx'.sets) = Len(cx.sets) + 1
    /\ cx'.sets[Len(cx'.sets)].value = Nil

\* C28: Set(key, nil) never changes the number of entries: for a key that is
\* absent nothing is installed, for a key that is present no entry is
\* removed, the entry stays and Get returns nil for it.
C28_SetNilKeepsEntries ==
    [][SetNilStep =>
          /\ cx'.x.len = cx.x.len
          /\ keysOf(cx'.x) = keysOf(cx.x)
          /\ Get(cx'.x, cx'.sets[Len(cx'.sets)].key) = Nil]_vars

\* nil set on a present key and on an absent one: one entry, before and after
C28_Witness ==
    /\ cx.sets = <<[key |-> "k1", value |-> 1], [key |-> "k1", value |-> Nil],
                   [key |-> "k2", value |-> Nil]>>
    /\ cx.x.len = 1
    /\ keysOf(cx.x) = {"k1"}
    /\ Get(cx.x, "k1") = Nil

\* ------------------------------------------------------------------ C29
\* the middleware around the route served, outermost first
ChainOfServed == SeenByServed.rmws \o SeenByServed.gmws

\* the positions of the chain whose middleware does not call next
Stops(ms) == {i \in 1..Len(ms) : ms[i] \in ShortCircuits}

\* C29: a middleware that returns without calling next short-circuits the
\* chain: no middleware registered after it (and not also before it) and
\* not the route handler runs, the middleware before it run around it, and
\* its response is the response of the request.
C29_ShortCircuitStopsChain ==
    (last.served = "route" /\ Stops(ChainOfServed) # {}) =>
        LET ms == ChainOfServed
            k == CHOOSE i \in Stops(ms) : \A j \in Stops(ms) : i <= j
            outer == SubSeq(ms, 1, k - 1)
        IN  /\ last.trace = Befores(outer) \o <<ms[k] \o "-return">> \o AftersReversed(outer)
            /\ \A i \in 1..Len(last.trace) :
                   /\ last.trace[i] # "H"
                   /\ \A j \in (k + 1)..Len(ms) :
                          (\A q \in 1..k : ms[q] # ms[j]) =>
                              last.trace[i] \notin {ms[j] \o "-before", ms[j] \o "-return"}
            /\ last.resp = [status |-> 401, body |-> "{\"error\":\"unauthorized\"}"]

\* router middleware A, then in the group X, which does not call next, and G:
\* the request to the group's route ran A around X and neither G nor the handler
C29_Witness ==
    /\ last.served = "route"
    /\ SeenByServed.scope = "api"
    /\ ChainOfServed = <<"A", "X", "G">>
    /\ last.trace = <<"A-before", "X-return", "A-after">>
    /\ last.resp.status = 401

\* ------------------------------------------------------------------ C30
\* the groups made by Group.Group
Nested == {"v1", "v2"}

\* the step creates the nested group g
Creates(g) == ~grp[g].made /\ grp'[g].made

\* C30: a nested group made by Group.Group starts with every middleware its
\* parent had at that moment, and with nothing else; what is added to it
\* later comes after them, and a request to a route of the nested group runs
\* the inherited middleware before the nested group's own.
C30_NestedGroupInheritsParentMiddleware ==
    /\ [][\A g \in Nested : Creates(g) => grp'[g].mws = grp["api"].mws]_vars
    /\ [](\A g \in Nested : grp[g].made =>
             /\ grp[g].inh <= Len(grp["api"].mws)
             /\ SubSeq(grp[g].mws, 1, grp[g].inh) = SubSeq(grp["api"].mws, 1, grp[g].inh)
             /\ \A i \in (grp[g].inh + 1)..Len(grp[g].mws) :
                    grp[g].mws[i] = GroupMiddleware[g])
    /\ []((last.served = "route" /\ SeenByServed.scope \in Nested) =>
             LET x == SeenByServed
             IN  \A i \in 1..Len(x.gmws) :
                     /\ last.trace[Len(x.rmws) + i] = x.gmws[i] \o "-before"
                     /\ x.gmws[i] = (IF i <= x.inh THEN GroupMiddleware["api"]
                                     ELSE GroupMiddleware[x.scope]))

\* the parent was given G twice before the second nested group was made and
\* that group S: a request to its route ran G, G, S and then the handler
C30_Witness ==
    /\ last.served = "route"
    /\ SeenByServed.scope = "v2"
    /\ SeenByServed.inh = 2
    /\ SeenByServed.gmws = <<"G", "G", "S">>
    /\ last.trace = <<"G-before", "G-before", "S-before", "H",
                      "S-after", "G-after", "G-after">>

\* ------------------------------------------------------------------ C31
\* a ServeHTTP call has been made by goroutine 1
Begun == pc[1] # "idle"

OneOutcomeOneHandler ==
    Begun =>
        /\ last.served \in {"route", "on404", "on405", "redirect"}
        /\ last.served = "route" => \E rt \in mux : rt.h = last.h
        /\ last.served = "on404" => last.h = on404
        /\ last.served = "on405" => last.h = on405
        /\ last.served = "redirect" =>
              /\ last.h = NoHandler /\ last.status = 301
              /\ pc[1] = "done" /\ c[1] = 0 /\ nput[1] = 0
        /\ last.served # "redirect" => c[1] \in alloc

\* ServeHTTP has returned only with the Context put back, once
ReturnsReleased ==
    (pc[1] = "done" /\ last.served # "redirect") =>
        /\ exit[1] = "normal"
        /\ nput[1] = 1
        /\ c[1] \in sp
        /\ heap[c[1]].w = Nil /\ heap[c[1]].r = Nil /\ heap[c[1]].len = 0

C32_RouterMiddlewareAtRegistration ==
    (last.served = "route" /\ SeenByServed.scope \in Groups) =>
        LET x == SeenByServed
        IN  /\ last.h.mws = x.rmws \o x.gmws
            /\ Len(x.rmws) >= grp[x.scope].at
            /\ Len(last.trace) > Len(x.rmws)
            /\ SubSeq(last.trace, 1, Len(x.rmws)) = Befores(x.rmws)

\* the group was made, then the router was given A and B, then the route was
\* registered on the group: the request ran A and B around the handler
C32_Witness ==
    /\ last.served = "route"
    /\ SeenByServed.scope = "api"
    /\ grp["api"].at = 0
    /\ SeenByServed.rmws = <<"A", "B">>
    /\ last.trace = <<"A-before", "B-before", "H", "B-after", "A-after">>

\* ------------------------------------------------------------------ C33
\* the request ended in the not-found or the method-not-allowed handler
Probed == last.served \in {"on404", "on405"}

boundMethods(p) == {b.method : b \in {x \in reg.mux : x.pattern = p}}

\* the methods the index lists for the pattern
indexedMethods(p) == {reg.allowed[p][i] : i \in 1..Len(reg.allowed[p])}

\* C34: after any sequence of route registrations a pattern is in the
\* allowed-methods index if and only if it has at least one method binding,
\* the bare pattern is registered exactly once per such pattern, and the
\* index lists each bound method of the pattern.
C34_IndexMatchesBindings ==
    \A p \in Patterns :
        /\ (reg.allowed[p] # <<>>) <=> (boundMethods(p) # {})
        /\ reg.bare[p] = (IF boundMethods(p) # {} THEN 1 ELSE 0)
        /\ indexedMethods(p) = boundMethods(p)

\* ------------------------------------------------------------------ C35
\* a step of the code that serves a request: Router.ServeHTTP and the
\* closure of Router.handler with its deferred function
ServingStep == lifeVars' # lifeVars

C36_ErrorHandlerAtMostOnce ==
    \A t \in Tasks :
        /\ Len(calls[t]) <= 1
        /\ pc[t] = "handler" => calls[t] = <<>>
        /\ pc[t] \in {"onErr", "recovered", "release", "done"} =>
              (Len(calls[t]) = 1 <=> hout[t].out \in {"err", "panic"})

\* a request is over whose handler returned an error and whose error handler
\* panicked, and another whose handler returned nil
C36_Witness ==
    \E t, u \in Tasks :
        /\ pc[t] = "done" /\ hout[t].out = "err"
        /\ Len(calls[t]) = 1 /\ calls[t][1].out = "panic"
        /\ pc[u] = "done" /\ hout[u].out = "nil" /\ calls[u] = <<>>

\* ------------------------------------------------------------------ C37
\* the error handler of task t's request is running
InErrorHandler(t) == pc[t] \in {"onErr", "recovered"}

\* the context is bound to the request, not in the pool, not put back yet,
\* and in the hands of no other request
HeldAttached(t) ==
    /\ heap[c[t]].w = req[t] /\ heap[c[t]].r = req[t]
    /\ c[t] \notin sp
    /\ nput[t] = 0
    /\ \A u \in Tasks \ {t} : pc[u] \in InFlight => c[u] # c[t]

\* C37: the error handler runs before the context is detached and put back:
\* while it runs, for a returned error or for a recovered panic, the context
\* is still attached to the request, holds the locals as the handler chain
\* left them, and is available to no other request.
C37_ErrorHandlerBeforeRelease ==
    /\ [](\A t \in Tasks : InErrorHandler(t) => HeldAttached(t))
    /\ [][\A t \in Tasks : InErrorHandler(t)' =>
              c'[t] = c[t] /\ heap'[c[t]] = heap[c[t]]]_vars

\* the error handler runs on a context that holds a local of the request
\* while another request is being served
C37_Witness ==
    \E t, u \in Tasks :
        /\ InErrorHandler(t)
        /\ heap[c[t]].len = 1
        /\ \E k \in Keys : Get(heap[c[t]], k) = req[t]
        /\ t # u /\ pc[u] = "handler"

\* ------------------------------------------------------------------ C38
\* C38: the 404 and 405 handlers are never wrapped by middleware: whatever
\* middleware was registered before or after On404 and On405, the handlers
\* the router holds carry none, and a request that no route serves invokes
\* the handler alone.
C38_FallbackHandlersUnwrapped ==
    /\ on404.mws = <<>>
    /\ on405.mws = <<>>
    /\ last.served = "on404" => last.h = on404 /\ last.trace = <<"on404">>
    /\ last.served = "on405" => last.h = on405 /\ last.trace = <<"on405">>

\* the custom 405 handler has answered a request on a router whose route is
\* wrapped in middleware
C38_Witness ==
    /\ last.served = "on405"
    /\ last.h = named("custom405")
    /\ mws # <<>>
    /\ \E rt \in mux : rt.h.mws # <<>>

\* ------------------------------------------------------------------ C39
\* how many times the middleware m stands in the chain ms
timesIn(m, ms) == Cardinality({i \in 1..Len(ms) : ms[i] = m})

\* C39: a route's middleware chain is fixed when the route is registered: no
\* later call (Use on the router, on the group or on a parent group, Group,
\* another registration) changes a registered route, the chain a request runs
\* is the router's and the group's middleware as they were at registration,
\* and a nested group's route carries of its parent's middleware only what
\* the parent had when the nested group was created.
C39_ChainFixedAtRegistration ==
    /\ [][\A rt \in mux : rt \in mux']_vars
    /\ [](last.served = "route" =>
            LET x == SeenByServed
            IN  /\ last.h.mws = x.rmws \o x.gmws
                /\ x.scope \in {"v1", "v2"} =>
                      timesIn(GroupMiddleware["api"], last.h.mws) = x.inh)

\* a route registered on the nested group before any Use is served alone
\* after the router, the parent group and the nested group were given
\* middleware
C39_Witness ==
    /\ last.served = "route"
    /\ SeenByServed.scope = "v1"
    /\ last.trace = <<"H">>
    /\ mws # <<>>
    /\ grp["api"].mws # <<>>
    /\ grp["v1"].mws # <<>>

\* ------------------------------------------------------------------ C40
\* the four media types as requests write them, in either case
FourAsWritten ==
    {"application/xml", "APPLICATION/XML", "text/xml", "Text/XML",
     "application/x-www-form-urlencoded", "multipart/form-data", "Multipart/Form-Data"}

\* C40: Bind decodes the body as JSON exactly when the request's media type
\* is none of application/xml, text/xml, application/x-www-form-urlencoded
\* and multipart/form-data; for these four it returns nil, the body not read
\* and the target not touched. The media type is the one Content-Type parses
\* to: written in any case, with or without parameters.
C40_BindByMediaType ==
    bnd.called =>
        /\ IF ContentType(bnd.header) \in {"application/xml", "text/xml",
                                           "application/x-www-form-urlencoded",
                                           "multipart/form-data"}
           THEN bnd.res = bound(returnNil, FALSE, FALSE)
           ELSE bnd.res = bound(decodeJSON(bnd.target, bnd.sent), TRUE, TRUE)
        /\ (bnd.header.type \in FourAsWritten /\ bnd.header.params # "a=1; a=2")
              => bnd.res = bound(returnNil, FALSE, FALSE)
        /\ bnd.header.type \notin FourAsWritten => bnd.res.read /\ bnd.res.given

\* Bind returned nil for an XML request, written in upper case with a
\* parameter, whose body decodeJSON would have refused
C40_Witness ==
    /\ bnd.called
    /\ bnd.header = [type |-> "APPLICATION/XML", params |-> "charset=utf-8"]
    /\ bnd.res = bound(returnNil, FALSE, FALSE)
    /\ decodeJSON(bnd.target, bnd.sent).kind = "error"

====
